---- MODULE Spec2Model ----
(***************************************************************************)
(* Pearson correlation engine of github.com/rsned/stats/correlation.       *)
(*                                                                         *)
(* The engine is floating-point code.  float64 is modelled by a binary     *)
(* floating-point format with the IEEE-754 rules of float64 (round to      *)
(* nearest, ties to even; gradual underflow; overflow to +-Inf; NaN) and a *)
(* scaled-down width: PrecBits significand bits instead of 53, overflow    *)
(* threshold 2^MaxExp instead of 2^1024.  math/big.Float is modelled by    *)
(* the same rounding with the precision each value carries, a much wider   *)
(* exponent range (BigMaxExp for MaxExp = 2^31-1), no NaN: the operations  *)
(* that have no value panic with ErrNaN.  Every arithmetic operation is    *)
(* rounded on its own (no fused multiply-add, as on amd64).  The sign of   *)
(* zero is not modelled: no result of the package depends on it.           *)
(***************************************************************************)
EXTENDS Integers, Sequences, FiniteSets, TLC

(***************************************************************************)
(* Bounds of the model.                                                    *)
(***************************************************************************)
\* significand bits of the modelled float64 (53 in Go)
PrecBits == 3
\* the modelled float64 overflows to Inf at 2^MaxExp (2^1024 in Go)
MaxExp == 6
\* the smallest positive modelled float64 is 2^(-MinExp) (2^(-1074) in Go)
MinExp == 6
\* precision SetInt64 / SetUint64 / SetInt give a big.Float (64 in Go)
IntPrecBits == 5
\* a big.Float overflows to Inf at 2^BigMaxExp (big.MaxExp in Go)
BigMaxExp == 40
\* longest input slice
MaxLen == 3

(***************************************************************************)
(* Integer helpers.                                                        *)
(***************************************************************************)
Abs(n) == IF n < 0 THEN -n ELSE n

Max(a, b) == IF a >= b THEN a ELSE b

Min(a, b) == IF a <= b THEN a ELSE b

Sgn(n) == IF n < 0 THEN -1 ELSE IF n = 0 THEN 0 ELSE 1

RECURSIVE BitLen(_)
BitLen(n) == IF n = 0 THEN 0 ELSE 1 + BitLen(n \div 2)

\* floor of the square root of n >= 0, digit by digit from bit b down
RECURSIVE ISqrtFrom(_, _, _)
ISqrtFrom(n, r, b) ==
    IF b < 0 THEN r
    ELSE LET c == r + 2^b
         IN  IF c * c <= n THEN ISqrtFrom(n, c, b - 1) ELSE ISqrtFrom(n, r, b - 1)

ISqrt(n) == ISqrtFrom(n, 0, (BitLen(n) + 1) \div 2)

(***************************************************************************)
(* Floating-point values: k is "fin" (m * 2^e, m odd or m = e = 0),        *)
(* "inf" (m = +1 or -1), "nan", or "errnan" (a big.Float operation that    *)
(* panicked with ErrNaN; e numbers the operation).                           *)
(***************************************************************************)
NaN == [k |-> "nan", m |-> 0, e |-> 0]

Inf(s) == [k |-> "inf", m |-> s, e |-> 0]

Zero == [k |-> "fin", m |-> 0, e |-> 0]

RECURSIVE Norm(_, _)
Norm(m, e) ==
    IF m = 0 THEN Zero
    ELSE IF m % 2 = 0 THEN Norm(m \div 2, e + 1)
    ELSE [k |-> "fin", m |-> m, e |-> e]

Fin(m, e) == Norm(m, e)

IsFin(a) == a.k = "fin"

IsInf(a) == a.k = "inf"

IsNaN(a) == a.k = "nan"

IsZero(a) == a.k = "fin" /\ a.m = 0

\* sign of a finite or infinite value: -1, 0, +1
SignOf(a) == Sgn(a.m)

\* exponent of the bit above the leading bit: 2^(Top-1) <= |a| < 2^Top
Top(a) == a.e + BitLen(Abs(a.m))

\* a format: p significand bits, quantum never below 2^emin, Inf from 2^emax
Float64Fmt == [p |-> PrecBits, emin |-> -MinExp, emax |-> MaxExp]

BigFmt(prec) == [p |-> prec, emin |-> -(4 * BigMaxExp), emax |-> BigMaxExp]

\* M * 2^E rounded to the format: nearest, ties to even; overflow gives Inf
Round(fmt, M, E) ==
    IF M = 0 THEN Zero
    ELSE LET a     == Abs(M)
             bl    == BitLen(a)
             q     == Max(E + bl - fmt.p, fmt.emin)
             shift == q - E
             r     == IF shift <= 0 THEN Norm(M, E)
                      ELSE IF shift > bl THEN Zero
                      ELSE LET d    == 2^shift
                               quo  == a \div d
                               rem  == a % d
                               half == d \div 2
                               up   == rem > half \/ (rem = half /\ quo % 2 = 1)
                           IN  Norm(Sgn(M) * (quo + (IF up THEN 1 ELSE 0)), q)
         IN  IF Top(r) > fmt.emax THEN Inf(Sgn(M)) ELSE r

\* exact sum of two finite values as <<M, E>>; an operand far below the other
\* is replaced by a sticky bit of its sign below every bit that rounding to
\* p bits can see
ExactSum(p, a, b) ==
    IF a.m = 0 THEN <<b.m, b.e>>
    ELSE IF b.m = 0 THEN <<a.m, a.e>>
    ELSE LET hi == IF Top(a) >= Top(b) THEN a ELSE b
             lo == IF Top(a) >= Top(b) THEN b ELSE a
             L  == Min(hi.e, Top(hi) - p - 2) - 1
         IN  IF Top(lo) <= L
             THEN <<hi.m * 2^(hi.e - (L - 1)) + Sgn(lo.m), L - 1>>
             ELSE LET E == Min(a.e, b.e)
                  IN  <<a.m * 2^(a.e - E) + b.m * 2^(b.e - E), E>>

\* quotient of two finite nonzero values with p+2 significant bits and a
\* sticky bit, as <<M, E>>
ExactQuo(p, a, b) ==
    LET k   == p + 2 + BitLen(Abs(b.m))
        num == Abs(a.m) * 2^k
        den == Abs(b.m)
        Q   == num \div den
        st  == IF num % den = 0 THEN 0 ELSE 1
    IN  <<Sgn(a.m) * Sgn(b.m) * (2 * Q + st), a.e - b.e - k - 1>>

\* square root of a finite positive value with p+2 significant bits and a
\* sticky bit, as <<M, E>>
ExactSqrt(p, a) ==
    LET bl  == BitLen(a.m)
        up  == Max(0, 2 * p + 4 - bl)
        sh  == IF (a.e - up) % 2 = 0 THEN up ELSE up + 1
        n   == a.m * 2^sh
        S   == ISqrt(n)
        st  == IF S * S = n THEN 0 ELSE 1
    IN  <<2 * S + st, ((a.e - sh) \div 2) - 1>>

(***************************************************************************)
(* float64 arithmetic (IEEE-754).                                          *)
(***************************************************************************)
FNeg(a) == IF a.k = "nan" THEN a ELSE [a EXCEPT !.m = -a.m]

FAdd(a, b) ==
    IF IsNaN(a) \/ IsNaN(b) THEN NaN
    ELSE IF IsInf(a) /\ IsInf(b) THEN (IF a.m = b.m THEN a ELSE NaN)
    ELSE IF IsInf(a) THEN a
    ELSE IF IsInf(b) THEN b
    ELSE LET s == ExactSum(PrecBits, a, b) IN Round(Float64Fmt, s[1], s[2])

FSub(a, b) == FAdd(a, FNeg(b))

FMul(a, b) ==
    IF IsNaN(a) \/ IsNaN(b) THEN NaN
    ELSE IF IsInf(a) \/ IsInf(b)
         THEN (IF IsZero(a) \/ IsZero(b) THEN NaN ELSE Inf(SignOf(a) * SignOf(b)))
    ELSE Round(Float64Fmt, a.m * b.m, a.e + b.e)

FDiv(a, b) ==
    IF IsNaN(a) \/ IsNaN(b) THEN NaN
    ELSE IF IsInf(a) THEN (IF IsInf(b) THEN NaN
                           ELSE Inf(a.m * (IF b.m < 0 THEN -1 ELSE 1)))
    ELSE IF IsInf(b) THEN Zero
    ELSE IF IsZero(b) THEN (IF IsZero(a) THEN NaN ELSE Inf(SignOf(a)))
    ELSE IF IsZero(a) THEN Zero
    ELSE LET q == ExactQuo(PrecBits, a, b) IN Round(Float64Fmt, q[1], q[2])

\* math.Sqrt
FSqrt(a) ==
    IF IsNaN(a) THEN NaN
    ELSE IF a.m < 0 THEN NaN
    ELSE IF IsInf(a) \/ IsZero(a) THEN a
    ELSE LET r == ExactSqrt(PrecBits, a) IN Round(Float64Fmt, r[1], r[2])

\* a <= 0 and a == 0 as Go compares float64: false for NaN
FLeqZero(a) == ~IsNaN(a) /\ a.m <= 0

FEqZero(a) == IsZero(a)

\* float64(v) of a native element: exact for a float, rounded for an integer
ToFloat64(v) == IF IsFin(v) THEN Round(Float64Fmt, v.m, v.e) ELSE v

\* float64(n) of a slice length
LenToFloat64(n) == Round(Float64Fmt, n, 0)

(***************************************************************************)
(* math/big.Float: a value with the precision it carries.  form "nil" is a *)
(* nil pointer.                                                            *)
(***************************************************************************)
Big(v, prec) == [k |-> v.k, m |-> v.m, e |-> v.e, prec |-> prec]

BigNil == [k |-> "nil", m |-> 0, e |-> 0, prec |-> 0]

\* new(big.Float)
NewFloat == Big(Zero, 0)

\* the panic of an operation without a value; op numbers the operation
ErrNaN(op, prec) == [k |-> "errnan", m |-> 0, e |-> op, prec |-> prec]

ErrNaNMsg(v) ==
    CASE v.e = 1 -> "addition of infinities with opposite signs"
      [] v.e = 2 -> "subtraction of infinities with equal signs"
      [] v.e = 3 -> "multiplication of zero with infinity"
      [] v.e = 4 -> "division of zero by zero or infinity by infinity"
      [] v.e = 5 -> "square root of negative operand"
      [] OTHER   -> "Float.SetFloat64(NaN)"

IsErrNaN(a) == a.k = "errnan"

\* z's precision after an operation on x and y: unchanged unless it is 0
ZPrec(z, x, y) == IF z.prec = 0 THEN Max(x.prec, y.prec) ELSE z.prec

\* a finite or infinite value rounded to prec bits (z.Set(x))
BigRound(prec, M, E) == Big(Round(BigFmt(prec), M, E), prec)

BigSet(prec, x) == IF IsInf(x) THEN Big(x, prec) ELSE BigRound(prec, x.m, x.e)

\* z.Add(x, y)
BigAdd(z, x, y) ==
    LET p == ZPrec(z, x, y)
    IN  IF IsInf(x) /\ IsInf(y) /\ x.m # y.m
        THEN ErrNaN(1, p)
        ELSE IF IsInf(x) THEN BigSet(p, x)
        ELSE IF IsInf(y) THEN BigSet(p, y)
        ELSE LET s == ExactSum(p, x, y) IN BigRound(p, s[1], s[2])

\* z.Sub(x, y)
BigSub(z, x, y) ==
    LET p == ZPrec(z, x, y)
    IN  IF IsInf(x) /\ IsInf(y) /\ x.m = y.m
        THEN ErrNaN(2, p)
        ELSE IF IsInf(x) THEN BigSet(p, x)
        ELSE IF IsInf(y) THEN Big(Inf(-y.m), p)
        ELSE LET s == ExactSum(p, x, [y EXCEPT !.m = -y.m])
             IN  BigRound(p, s[1], s[2])

\* z.Mul(x, y)
BigMul(z, x, y) ==
    LET p == ZPrec(z, x, y)
    IN  IF IsInf(x) \/ IsInf(y)
        THEN (IF IsZero(x) \/ IsZero(y)
              THEN ErrNaN(3, p)
              ELSE Big(Inf(Sgn(x.m) * Sgn(y.m)), p))
        ELSE BigRound(p, x.m * y.m, x.e + y.e)

\* z.Quo(x, y)
BigQuo(z, x, y) ==
    LET p == ZPrec(z, x, y)
    IN  IF (IsZero(x) /\ IsZero(y)) \/ (IsInf(x) /\ IsInf(y))
        THEN ErrNaN(4, p)
        ELSE IF IsInf(x) THEN Big(Inf(x.m * (IF y.m < 0 THEN -1 ELSE 1)), p)
        ELSE IF IsInf(y) THEN Big(Zero, p)
        ELSE IF IsZero(y) THEN Big(Inf(Sgn(x.m)), p)
        ELSE IF IsZero(x) THEN Big(Zero, p)
        ELSE LET q == ExactQuo(p, x, y) IN BigRound(p, q[1], q[2])

\* z.Sqrt(x)
BigSqrt(z, x) ==
    LET p == IF z.prec = 0 THEN x.prec ELSE z.prec
    IN  IF x.m < 0 THEN ErrNaN(5, p)
        ELSE IF IsInf(x) \/ IsZero(x) THEN Big(x, p)
        ELSE LET r == ExactSqrt(p, x) IN BigRound(p, r[1], r[2])

\* x.Cmp(zero) <= 0
BigLeqZero(x) == x.m <= 0

\* x.Float64(): the nearest float64
BigFloat64(x) == IF IsInf(x) THEN Inf(x.m) ELSE Round(Float64Fmt, x.m, x.e)

\* new(big.Float).SetFloat64(v): precision 53, exact; panics on NaN
SetFloat64(v) ==
    IF IsNaN(v) THEN ErrNaN(6, PrecBits)
    ELSE Big(v, PrecBits)

\* new(big.Float).SetInt64(v) / SetUint64(v): precision 64, exact
SetInt64(v) == Big(v, IntPrecBits)

\* new(big.Float).SetInt(v): precision max(v.BitLen(), 64), exact
SetInt(v) == Big(v, Max(BitLen(Abs(v.m)) + v.e, IntPrecBits))

\* new(big.Float).Copy(v)
Copy(v) == v

(***************************************************************************)
(* Correlation kinds (type Type) and element types.                        *)
(***************************************************************************)
Pearson == 0
Spearman == 1
KendallTau == 2
GoodmanKruskal == 3
\* a Type value outside the four kinds, Type(999)
UnknownType == 999

Kinds == {Pearson, Spearman, KendallTau, GoodmanKruskal, UnknownType}

\* Element types of a slice.  "float64" stands for float32 and float64,
\* "int64" for every integer type (each is converted by SetInt64 or
\* SetUint64), "named" for a defined type such as `type Celsius float64`,
\* which satisfies ~float64 and matches no case of mixedToBig's type switch.
NativeTypes == {"float64", "int64", "named"}

BigTypes == {"bigFloat", "bigInt"}

\* a slice: its element type and its elements; every element carries the
\* four fields of Big (prec is 0 for a native element and for a *big.Int)
Slice(t, v) == [t |-> t, v |-> v]

Elem(v) == Big(v, 0)

\* float64(x[i]) of a native element
Float64Of(el) == ToFloat64([k |-> el.k, m |-> el.m, e |-> el.e])

(***************************************************************************)
(* What a call gives back: (value, error) with err "nil" for no error, or  *)
(* a panic.                                                                *)
(***************************************************************************)
Return(val, err) == [tag |-> "return", val |-> val, err |-> err]

Panic(msg) == [tag |-> "panic", val |-> Zero, err |-> msg]

NoReturn == [tag |-> "none", val |-> Zero, err |-> "nil"]

NilDeref == "runtime error: invalid memory address or nil pointer dereference"

ErrEmpty == "input slices cannot be empty"

ErrLength == "input slices must have the same length"

ErrOnePoint == "correlation requires at least 2 data points"

ErrZeroVariance == "correlation undefined: one or both variables have zero variance"

ErrSameSign == "correlation undefined: infinite values with same sign detected"

ErrInfVarX == "correlation undefined: infinite variance detected in X"

ErrInfVarY == "correlation undefined: infinite variance detected in Y"

ErrSlicesLength == "slices must have the same length"

ErrSlicesEmpty == "slices cannot be empty"

ErrNotImplemented == "not implemented"

ErrUnsupportedKind == "unsupported correlation type"

ErrConvPrefix == "Pearson's calculation needs to convert to big, but conversion failed: "

\* an error text that names the index after the element's
ErrUnsupportedTypeNext(i) == "unsupported type at index " \o ToString(i + 1)

ErrUnsupportedType(i) == "unsupported type at index " \o ToString(i)

(***************************************************************************)
(* mixedToBig: every element to a *big.Float, in index order.  Gives       *)
(* [res, err, panic]: the converted elements, the error ("nil" for none)   *)
(* and the panic ("" for none).                                            *)
(***************************************************************************)
MixedElem(t, el) ==
    CASE t = "bigFloat" -> Copy(el)
      [] t = "bigInt"   -> SetInt(el)
      [] t = "int64"    -> SetInt64(el)
      [] OTHER          -> SetFloat64(el)

RECURSIVE mixedToBigFrom(_, _, _)
mixedToBigFrom(data, i, result) ==
    IF i > Len(data.v) THEN [res |-> result, err |-> "nil", panic |-> ""]
    ELSE LET el == data.v[i]
         IN  IF data.t = "named"
             THEN [res |-> <<>>, err |-> ErrUnsupportedType(i - 1), panic |-> ""]
             ELSE IF el.k = "nil"
             THEN [res |-> <<>>, err |-> "nil", panic |-> NilDeref]
             ELSE LET c == MixedElem(data.t, el)
                  IN  IF IsErrNaN(c)
                      THEN [res |-> <<>>, err |-> "nil", panic |-> ErrNaNMsg(c)]
                      ELSE mixedToBigFrom(data, i + 1, Append(result, c))

mixedToBig(data) == mixedToBigFrom(data, 1, <<>>)

\* the []*big.Float a successful mixedToBig returns
BigSlice(res) == Slice("bigFloat", res)

(***************************************************************************)
(* The frame of a running call: the position pc, the locals of             *)
(* pearsonsSinglePass (sp) and of PearsonsBig (pb), and what the call has  *)
(* done so far: esc (the machine pass escalated), touched (an element was  *)
(* converted or used in arithmetic), subs (the operand pairs big.Float.Sub *)
(* was invoked on), ret (what the call gave back).                         *)
(***************************************************************************)
NoSlice == Slice("bigFloat", <<>>)

InitSP == [i |-> 0, sumX |-> Zero, sumY |-> Zero, sumXY |-> Zero,
           sumXX |-> Zero, sumYY |-> Zero]

InitPB == [x |-> NoSlice, y |-> NoSlice, xVals |-> <<>>, yVals |-> <<>>,
           i |-> 0, sumX |-> NewFloat, sumY |-> NewFloat, sumXY |-> NewFloat,
           sumXX |-> NewFloat, sumYY |-> NewFloat, temp |-> NewFloat,
           numerator |-> NewFloat, varX |-> NewFloat, varY |-> NewFloat]

InitFrame == [pc |-> "idle", sp |-> InitSP, pb |-> InitPB, esc |-> FALSE,
              touched |-> FALSE, subs |-> <<>>, ret |-> NoReturn]

Done(fr, r) == [fr EXCEPT !.pc = "done", !.ret = r]

(***************************************************************************)
(* PearsonsBig, pearsons.go:156-273, stage by stage.                       *)
(***************************************************************************)
\* lines 157-168: the shape checks
PearsonsBigEnter(fr, x, y) ==
    IF Len(x.v) = 0 \/ Len(y.v) = 0 THEN Done(fr, Return(Zero, ErrEmpty))
    ELSE IF Len(x.v) # Len(y.v) THEN Done(fr, Return(Zero, ErrLength))
    ELSE IF Len(x.v) = 1 THEN Done(fr, Return(Zero, ErrOnePoint))
    ELSE [fr EXCEPT !.pc = "big_convert", !.pb = [InitPB EXCEPT !.x = x, !.y = y]]

\* lines 175-187: one element to a fresh *big.Float; a nil pointer is
\* dereferenced by Copy and by SetInt
BigElem(t, el) == IF t = "bigInt" THEN SetInt(el) ELSE Copy(el)

\* lines 170-188: the conversion loop
PearsonsBigConvert(fr) ==
    LET x == fr.pb.x
        y == fr.pb.y
        n == Len(x.v)
    IN  IF \E j \in 1..n : x.v[j].k = "nil" \/ y.v[j].k = "nil"
        THEN Done([fr EXCEPT !.touched = TRUE], Panic(NilDeref))
        ELSE [fr EXCEPT !.pc = "big_loop", !.touched = TRUE,
                        !.pb.xVals = [j \in 1..n |-> BigElem(x.t, x.v[j])],
                        !.pb.yVals = [j \in 1..n |-> BigElem(y.t, y.v[j])]]

\* the first operation of a sequence that panicked, or "none"
RECURSIVE FirstErrNaN(_)
FirstErrNaN(vals) ==
    IF vals = <<>> THEN "none"
    ELSE IF IsErrNaN(Head(vals)) THEN ErrNaNMsg(Head(vals))
    ELSE FirstErrNaN(Tail(vals))

\* lines 199-216: one iteration of the accumulation loop
PearsonsBigLoop(fr) ==
    LET b     == fr.pb
        fx    == b.xVals[b.i + 1]
        fy    == b.yVals[b.i + 1]
        sumX  == BigAdd(b.sumX, b.sumX, fx)
        sumY  == BigAdd(b.sumY, b.sumY, fy)
        t1    == BigMul(b.temp, fx, fy)
        sumXY == BigAdd(b.sumXY, b.sumXY, t1)
        t2    == BigMul(t1, fx, fx)
        sumXX == BigAdd(b.sumXX, b.sumXX, t2)
        t3    == BigMul(t2, fy, fy)
        sumYY == BigAdd(b.sumYY, b.sumYY, t3)
        bad   == FirstErrNaN(<<sumX, sumY, t1, sumXY, t2, sumXX, t3, sumYY>>)
    IN  IF bad # "none" THEN Done(fr, Panic(bad))
        ELSE [fr EXCEPT !.pb.i = b.i + 1, !.pb.sumX = sumX, !.pb.sumY = sumY,
                        !.pb.sumXY = sumXY, !.pb.sumXX = sumXX,
                        !.pb.sumYY = sumYY, !.pb.temp = t3,
                        !.pc = IF b.i + 1 = Len(b.xVals) THEN "big_numerator"
                               ELSE "big_loop"]

\* line 218
BigN(fr) == SetInt64(Fin(Len(fr.pb.xVals), 0))

\* temp.Mul(a, b); temp.Quo(temp, nf)
ScaledProduct(fr, a, b) ==
    LET t == BigMul(fr.pb.temp, a, b)
    IN  IF IsErrNaN(t) THEN t ELSE BigQuo(t, t, BigN(fr))

\* both operands infinite with the same sign
SameSignInf(a, t) == IsInf(a) /\ IsInf(t) /\ (a.m < 0) = (t.m < 0)

\* the numerator stage without its same-sign check
PearsonsBigNumeratorUnchecked(fr) ==
    LET b  == fr.pb
        t  == ScaledProduct(fr, b.sumX, b.sumY)
    IN  IF IsErrNaN(t) THEN Done(fr, Panic(ErrNaNMsg(t)))
        ELSE LET d  == BigSub(NewFloat, b.sumXY, t)
                 f2 == [fr EXCEPT !.pb.temp = t, !.pb.numerator = d,
                                  !.subs = Append(fr.subs, <<b.sumXY, t>>)]
             IN  IF IsErrNaN(d) THEN Done(f2, Panic(ErrNaNMsg(d)))
                 ELSE [f2 EXCEPT !.pc = "big_varX"]

\* a numerator stage that tests the variance of x for infinities first
PearsonsBigNumeratorAfterVarX(fr) ==
    LET b  == fr.pb
        t  == ScaledProduct(fr, b.sumX, b.sumY)
        tx == ScaledProduct(fr, b.sumX, b.sumX)
    IN  IF IsErrNaN(t) THEN Done(fr, Panic(ErrNaNMsg(t)))
        ELSE IF ~IsErrNaN(tx) /\ SameSignInf(b.sumXX, tx)
        THEN Done([fr EXCEPT !.pb.temp = tx], Return(Zero, ErrInfVarX))
        ELSE IF SameSignInf(b.sumXY, t)
        THEN Done([fr EXCEPT !.pb.temp = t], Return(Zero, ErrSameSign))
        ELSE LET d  == BigSub(NewFloat, b.sumXY, t)
                 f2 == [fr EXCEPT !.pb.temp = t, !.pb.numerator = d,
                                  !.subs = Append(fr.subs, <<b.sumXY, t>>)]
             IN  IF IsErrNaN(d) THEN Done(f2, Panic(ErrNaNMsg(d)))
                 ELSE [f2 EXCEPT !.pc = "big_varX"]

\* lines 220-230: numerator = sumXY - (sumX * sumY) / n
PearsonsBigNumerator(fr) ==
    LET b == fr.pb
        t == ScaledProduct(fr, b.sumX, b.sumY)
    IN  IF IsErrNaN(t) THEN Done(fr, Panic(ErrNaNMsg(t)))
        ELSE IF SameSignInf(b.sumXY, t)
        THEN Done([fr EXCEPT !.pb.temp = t], Return(Zero, ErrSameSign))
        ELSE LET d  == BigSub(NewFloat, b.sumXY, t)
                 f2 == [fr EXCEPT !.pb.temp = t, !.pb.numerator = d,
                                  !.subs = Append(fr.subs, <<b.sumXY, t>>)]
             IN  IF IsErrNaN(d) THEN Done(f2, Panic(ErrNaNMsg(d)))
                 ELSE [f2 EXCEPT !.pc = "big_varX"]

\* the varX stage without its same-sign check
PearsonsBigVarXUnchecked(fr) ==
    LET b  == fr.pb
        t  == ScaledProduct(fr, b.sumX, b.sumX)
    IN  IF IsErrNaN(t) THEN Done(fr, Panic(ErrNaNMsg(t)))
        ELSE LET d  == BigSub(NewFloat, b.sumXX, t)
                 f2 == [fr EXCEPT !.pb.temp = t, !.pb.varX = d,
                                  !.subs = Append(fr.subs, <<b.sumXX, t>>)]
             IN  IF IsErrNaN(d) THEN Done(f2, Panic(ErrNaNMsg(d)))
                 ELSE [f2 EXCEPT !.pc = "big_varY"]

\* lines 232-241: varX = sumXX - (sumX * sumX) / n
PearsonsBigVarX(fr) ==
    LET b == fr.pb
        t == ScaledProduct(fr, b.sumX, b.sumX)
    IN  IF IsErrNaN(t) THEN Done(fr, Panic(ErrNaNMsg(t)))
        ELSE IF SameSignInf(b.sumXX, t)
        THEN Done([fr EXCEPT !.pb.temp = t], Return(Zero, ErrInfVarX))
        ELSE LET d  == BigSub(NewFloat, b.sumXX, t)
                 f2 == [fr EXCEPT !.pb.temp = t, !.pb.varX = d,
                                  !.subs = Append(fr.subs, <<b.sumXX, t>>)]
             IN  IF IsErrNaN(d) THEN Done(f2, Panic(ErrNaNMsg(d)))
                 ELSE [f2 EXCEPT !.pc = "big_varY"]

\* lines 243-252: varY = sumYY - (sumY * sumY) / n
PearsonsBigVarY(fr) ==
    LET b == fr.pb
        t == ScaledProduct(fr, b.sumY, b.sumY)
    IN  IF IsErrNaN(t) THEN Done(fr, Panic(ErrNaNMsg(t)))
        ELSE IF SameSignInf(b.sumYY, t)
        THEN Done([fr EXCEPT !.pb.temp = t], Return(Zero, ErrInfVarY))
        ELSE LET d  == BigSub(NewFloat, b.sumYY, t)
                 f2 == [fr EXCEPT !.pb.temp = t, !.pb.varY = d,
                                  !.subs = Append(fr.subs, <<b.sumYY, t>>)]
             IN  IF IsErrNaN(d) THEN Done(f2, Panic(ErrNaNMsg(d)))
                 ELSE [f2 EXCEPT !.pc = "big_result"]

\* lines 254-272: the zero-variance check, the denominator and the quotient
PearsonsBigResult(fr) ==
    LET b == fr.pb
    IN  IF BigLeqZero(b.varX) \/ BigLeqZero(b.varY)
        THEN Done(fr, Return(Zero, ErrZeroVariance))
        ELSE LET prod        == BigMul(NewFloat, b.varX, b.varY)
                 denominator == IF IsErrNaN(prod) THEN prod ELSE BigSqrt(prod, prod)
                 correlation == IF IsErrNaN(denominator) THEN denominator
                                ELSE BigQuo(NewFloat, b.numerator, denominator)
             IN  IF IsErrNaN(correlation)
                 THEN Done(fr, Panic(ErrNaNMsg(correlation)))
                 ELSE Done(fr, Return(BigFloat64(correlation), "nil"))

(***************************************************************************)
(* pearsonsSinglePass, pearsons.go:85-144, stage by stage.                 *)
(***************************************************************************)
\* lines 86-100: the shape checks
pearsonsSinglePassEnter(fr, x, y) ==
    IF Len(x.v) = 0 \/ Len(y.v) = 0 THEN Done(fr, Return(Zero, ErrEmpty))
    ELSE IF Len(x.v) # Len(y.v) THEN Done(fr, Return(Zero, ErrLength))
    ELSE IF Len(x.v) = 1 THEN Done(fr, Return(Zero, ErrOnePoint))
    ELSE [fr EXCEPT !.pc = "sp_loop", !.sp = InitSP]

\* an iteration that pairs x[i] with the element of y counted from the end
pearsonsSinglePassLoopReversed(fr, x, y) ==
    LET s  == fr.sp
        fx == Float64Of(x.v[s.i + 1])
        fy == Float64Of(y.v[Len(y.v) - s.i])
    IN  [fr EXCEPT !.touched = TRUE,
                   !.sp = [i     |-> s.i + 1,
                           sumX  |-> FAdd(s.sumX, fx),
                           sumY  |-> FAdd(s.sumY, fy),
                           sumXY |-> FAdd(s.sumXY, FMul(fx, fy)),
                           sumXX |-> FAdd(s.sumXX, FMul(fx, fx)),
                           sumYY |-> FAdd(s.sumYY, FMul(fy, fy))],
                   !.pc = IF s.i + 1 = Len(x.v) THEN "sp_check" ELSE "sp_loop"]

\* lines 102-111: one iteration of the accumulation loop
pearsonsSinglePassLoop(fr, x, y) ==
    LET s  == fr.sp
        fx == Float64Of(x.v[s.i + 1])
        fy == Float64Of(y.v[s.i + 1])
    IN  [fr EXCEPT !.touched = TRUE,
                   !.sp = [i     |-> s.i + 1,
                           sumX  |-> FAdd(s.sumX, fx),
                           sumY  |-> FAdd(s.sumY, fy),
                           sumXY |-> FAdd(s.sumXY, FMul(fx, fy)),
                           sumXX |-> FAdd(s.sumXX, FMul(fx, fx)),
                           sumYY |-> FAdd(s.sumYY, FMul(fy, fy))],
                   !.pc = IF s.i + 1 = Len(x.v) THEN "sp_check" ELSE "sp_loop"]

\* line 114
AnySumInf(s) ==
    IsInf(s.sumX) \/ IsInf(s.sumY) \/ IsInf(s.sumXY) \/ IsInf(s.sumXX) \/ IsInf(s.sumYY)

\* an escalation that converts the loop's float64 images, not the original
\* elements
EscalateImages(fr, x, y) ==
    LET img(s) == Slice("float64", [j \in 1..Len(s.v) |-> Elem(Float64Of(s.v[j]))])
        bigX   == mixedToBig(img(x))
        bigY   == mixedToBig(img(y))
        f2   == [fr EXCEPT !.esc = TRUE, !.touched = TRUE]
    IN  IF bigX.panic # "" THEN Done(f2, Panic(bigX.panic))
        ELSE IF bigX.err # "nil" THEN Done(f2, Return(Zero, ErrConvPrefix \o bigX.err))
        ELSE IF bigY.panic # "" THEN Done(f2, Panic(bigY.panic))
        ELSE IF bigY.err # "nil" THEN Done(f2, Return(Zero, ErrConvPrefix \o bigY.err))
        ELSE PearsonsBigEnter(f2, BigSlice(bigX.res), BigSlice(bigY.res))

\* lines 115-124: the escalation to PearsonsBig
Escalate(fr, x, y) ==
    LET bigX == mixedToBig(x)
        bigY == mixedToBig(y)
        f2   == [fr EXCEPT !.esc = TRUE, !.touched = TRUE]
    IN  IF bigX.panic # "" THEN Done(f2, Panic(bigX.panic))
        ELSE IF bigX.err # "nil" THEN Done(f2, Return(Zero, ErrConvPrefix \o bigX.err))
        ELSE IF bigY.panic # "" THEN Done(f2, Panic(bigY.panic))
        ELSE IF bigY.err # "nil" THEN Done(f2, Return(Zero, ErrConvPrefix \o bigY.err))
        ELSE PearsonsBigEnter(f2, BigSlice(bigX.res), BigSlice(bigY.res))

\* a derivation that returns the accumulated sumXY beside the zero-variance error
DeriveKeepsSum(fr, n) ==
    LET s           == fr.sp
        nf          == LenToFloat64(n)
        numerator   == FSub(s.sumXY, FDiv(FMul(s.sumX, s.sumY), nf))
        varX        == FSub(s.sumXX, FDiv(FMul(s.sumX, s.sumX), nf))
        varY        == FSub(s.sumYY, FDiv(FMul(s.sumY, s.sumY), nf))
        denominator == FSqrt(FMul(varX, varY))
    IN  IF FLeqZero(varX) \/ FLeqZero(varY)
        THEN Done(fr, Return(s.sumXY, ErrZeroVariance))
        ELSE Done(fr, Return(FDiv(numerator, denominator), "nil"))

\* a derivation that tests only the variance of x for degeneracy
DeriveChecksVarXOnly(fr, n) ==
    LET s           == fr.sp
        nf          == LenToFloat64(n)
        numerator   == FSub(s.sumXY, FDiv(FMul(s.sumX, s.sumY), nf))
        varX        == FSub(s.sumXX, FDiv(FMul(s.sumX, s.sumX), nf))
        varY        == FSub(s.sumYY, FDiv(FMul(s.sumY, s.sumY), nf))
        denominator == FSqrt(FMul(varX, varY))
    IN  IF FLeqZero(varX)
        THEN Done(fr, Return(Zero, ErrZeroVariance))
        ELSE Done(fr, Return(FDiv(numerator, denominator), "nil"))

\* lines 127-143: the coefficient from the five sums
Derive(fr, n) ==
    LET s           == fr.sp
        nf          == LenToFloat64(n)
        numerator   == FSub(s.sumXY, FDiv(FMul(s.sumX, s.sumY), nf))
        varX        == FSub(s.sumXX, FDiv(FMul(s.sumX, s.sumX), nf))
        varY        == FSub(s.sumYY, FDiv(FMul(s.sumY, s.sumY), nf))
        denominator == FSqrt(FMul(varX, varY))
    IN  IF FLeqZero(varX) \/ FLeqZero(varY)
        THEN Done(fr, Return(Zero, ErrZeroVariance))
        ELSE Done(fr, Return(FDiv(numerator, denominator), "nil"))

\* lines 113-143: after the loop
pearsonsSinglePassCheck(fr, x, y) ==
    IF AnySumInf(fr.sp) THEN Escalate(fr, x, y) ELSE Derive(fr, Len(x.v))

(***************************************************************************)
(* pearsonsTwoPass, pearsons.go:37-78.                                     *)
(***************************************************************************)
RECURSIVE SumFloat64(_, _, _)
SumFloat64(v, i, acc) ==
    IF i > Len(v) THEN acc ELSE SumFloat64(v, i + 1, FAdd(acc, Float64Of(v[i])))

\* lines 61-68: <<numerator, sumXX, sumYY>> over the deviations from the means
RECURSIVE Deviations(_, _, _, _, _, _)
Deviations(x, y, meanX, meanY, i, acc) ==
    IF i > Len(x) THEN acc
    ELSE LET dx == FSub(Float64Of(x[i]), meanX)
             dy == FSub(Float64Of(y[i]), meanY)
         IN  Deviations(x, y, meanX, meanY, i + 1,
                        <<FAdd(acc[1], FMul(dx, dy)), FAdd(acc[2], FMul(dx, dx)),
                          FAdd(acc[3], FMul(dy, dy))>>)

pearsonsTwoPass(x, y) ==
    IF Len(x.v) = 0 \/ Len(y.v) = 0 THEN Return(Zero, ErrEmpty)
    ELSE IF Len(x.v) # Len(y.v) THEN Return(Zero, ErrLength)
    ELSE IF Len(x.v) = 1 THEN Return(Zero, ErrOnePoint)
    ELSE LET nf    == LenToFloat64(Len(x.v))
             meanX == FDiv(SumFloat64(x.v, 1, Zero), nf)
             meanY == FDiv(SumFloat64(y.v, 1, Zero), nf)
             d     == Deviations(x.v, y.v, meanX, meanY, 1, <<Zero, Zero, Zero>>)
         IN  IF FEqZero(d[2]) \/ FEqZero(d[3]) THEN Return(Zero, ErrZeroVariance)
             ELSE Return(FDiv(d[1], FSqrt(FMul(d[2], d[3]))), "nil")

(***************************************************************************)
(* The dispatchers, pearsons.go:379-449, up to the first stage of the      *)
(* engine they call.                                                       *)
(***************************************************************************)
\* Spearmans, KendallsTau, GoodmanKruskals and their Big variants
NotImplemented(fr) == Done(fr, Return(Zero, ErrNotImplemented))

\* a dispatcher whose default case runs the Pearson engine
CorrelateDefaultsToPearson(fr, x, y, correlationType) ==
    CASE correlationType = Spearman       -> NotImplemented(fr)
      [] correlationType = KendallTau     -> NotImplemented(fr)
      [] correlationType = GoodmanKruskal -> NotImplemented(fr)
      [] OTHER -> pearsonsSinglePassEnter(fr, x, y)

\* a dispatcher whose Spearman case runs the Pearson engine
CorrelateSpearmanAsPearson(fr, x, y, correlationType) ==
    CASE correlationType = Pearson        -> pearsonsSinglePassEnter(fr, x, y)
      [] correlationType = Spearman       -> pearsonsSinglePassEnter(fr, x, y)
      [] correlationType = KendallTau     -> NotImplemented(fr)
      [] correlationType = GoodmanKruskal -> NotImplemented(fr)
      [] OTHER -> Done(fr, Return(Zero, ErrUnsupportedKind))

\* lines 379-392
Correlate(fr, x, y, correlationType) ==
    CASE correlationType = Pearson        -> pearsonsSinglePassEnter(fr, x, y)
      [] correlationType = Spearman       -> NotImplemented(fr)
      [] correlationType = KendallTau     -> NotImplemented(fr)
      [] correlationType = GoodmanKruskal -> NotImplemented(fr)
      [] OTHER -> Done(fr, Return(Zero, ErrUnsupportedKind))

\* a CorrelateBig that tests for an empty slice before it compares the lengths
CorrelateBigEmptyFirst(fr, x, y, correlationType) ==
    IF Len(x.v) = 0 \/ Len(y.v) = 0 THEN Done(fr, Return(Zero, ErrSlicesEmpty))
    ELSE IF Len(x.v) # Len(y.v) THEN Done(fr, Return(Zero, ErrSlicesLength))
    ELSE CASE correlationType = Pearson        -> PearsonsBigEnter(fr, x, y)
           [] correlationType = Spearman       -> NotImplemented(fr)
           [] correlationType = KendallTau     -> NotImplemented(fr)
           [] correlationType = GoodmanKruskal -> NotImplemented(fr)
           [] OTHER -> Done(fr, Return(Zero, ErrUnsupportedKind))

\* lines 402-422
CorrelateBig(fr, x, y, correlationType) ==
    IF Len(x.v) # Len(y.v) THEN Done(fr, Return(Zero, ErrSlicesLength))
    ELSE IF Len(x.v) = 0 THEN Done(fr, Return(Zero, ErrSlicesEmpty))
    ELSE CASE correlationType = Pearson        -> PearsonsBigEnter(fr, x, y)
           [] correlationType = Spearman       -> NotImplemented(fr)
           [] correlationType = KendallTau     -> NotImplemented(fr)
           [] correlationType = GoodmanKruskal -> NotImplemented(fr)
           [] OTHER -> Done(fr, Return(Zero, ErrUnsupportedKind))

\* a CorrelateMixed that hands the converted values to PearsonsBig whatever
\* the kind
CorrelateMixedIgnoresKind(fr, x, y, correlationType) ==
    IF Len(x.v) # Len(y.v) THEN Done(fr, Return(Zero, ErrSlicesLength))
    ELSE IF Len(x.v) = 0 THEN Done(fr, Return(Zero, ErrSlicesEmpty))
    ELSE LET xVals == mixedToBig(x)
             yVals == mixedToBig(y)
             f2    == [fr EXCEPT !.touched = TRUE]
         IN  IF xVals.panic # "" THEN Done(f2, Panic(xVals.panic))
             ELSE IF xVals.err # "nil" THEN Done(f2, Return(Zero, xVals.err))
             ELSE IF yVals.panic # "" THEN Done(f2, Panic(yVals.panic))
             ELSE IF yVals.err # "nil" THEN Done(f2, Return(Zero, yVals.err))
             ELSE PearsonsBigEnter(f2, BigSlice(xVals.res), BigSlice(yVals.res))

\* lines 429-449
CorrelateMixed(fr, x, y, correlationType) ==
    IF Len(x.v) # Len(y.v) THEN Done(fr, Return(Zero, ErrSlicesLength))
    ELSE IF Len(x.v) = 0 THEN Done(fr, Return(Zero, ErrSlicesEmpty))
    ELSE LET xVals == mixedToBig(x)
             yVals == mixedToBig(y)
             f2    == [fr EXCEPT !.touched = TRUE]
         IN  IF xVals.panic # "" THEN Done(f2, Panic(xVals.panic))
             ELSE IF xVals.err # "nil" THEN Done(f2, Return(Zero, xVals.err))
             ELSE IF yVals.panic # "" THEN Done(f2, Panic(yVals.panic))
             ELSE IF yVals.err # "nil" THEN Done(f2, Return(Zero, yVals.err))
             ELSE CorrelateBig(f2, BigSlice(xVals.res), BigSlice(yVals.res),
                               correlationType)

(***************************************************************************)
(* One step of a running call, and a call run to its end.                  *)
(***************************************************************************)
Step(fr, x, y) ==
    CASE fr.pc = "sp_loop"       -> pearsonsSinglePassLoop(fr, x, y)
      [] fr.pc = "sp_check"      -> pearsonsSinglePassCheck(fr, x, y)
      [] fr.pc = "big_convert"   -> PearsonsBigConvert(fr)
      [] fr.pc = "big_loop"      -> PearsonsBigLoop(fr)
      [] fr.pc = "big_numerator" -> PearsonsBigNumerator(fr)
      [] fr.pc = "big_varX"      -> PearsonsBigVarX(fr)
      [] fr.pc = "big_varY"      -> PearsonsBigVarY(fr)
      [] fr.pc = "big_result"    -> PearsonsBigResult(fr)
      [] OTHER                   -> fr

RECURSIVE Run(_, _, _)
Run(fr, x, y) == IF fr.pc = "done" THEN fr ELSE Run(Step(fr, x, y), x, y)

\* what each function gives back for its arguments
pearsonsSinglePass(x, y) == Run(pearsonsSinglePassEnter(InitFrame, x, y), x, y).ret

Pearsons(x, y) == pearsonsSinglePass(x, y)

PearsonsBig(x, y) == Run(PearsonsBigEnter(InitFrame, x, y), x, y).ret

(***************************************************************************)
(* The state: the caller's arguments (x, y, kind), the public function it  *)
(* called (entry, "none" before the call) and the frame f of that call.    *)
(***************************************************************************)
VARIABLES x, y, kind, entry, f

vars == <<x, y, kind, entry, f>>

\* all sequences over S of lo..hi elements
SeqsOf(S, lo, hi) == UNION {[1..n -> S] : n \in lo..hi}

\* the values the inputs are drawn from
One == Elem(Fin(1, 0))

Two == Elem(Fin(2, 0))

Three == Elem(Fin(3, 0))

MinusOne == Elem(Fin(-1, 0))

ZeroElem == Elem(Zero)

\* a float64 whose square overflows, as 1e154 does
Large == Elem(Fin(1, MaxExp \div 2))

PlusInf == Elem(Inf(1))

MinusInf == Elem(Inf(-1))

NaNElem == Elem(NaN)

\* an integer that float64 cannot hold exactly, as 2^53+1
WideInt == Elem(Fin(2^PrecBits + 1, 0))

\* *big.Float values as big.NewFloat makes them (precision 53)
BigOf(el) == Big(el, PrecBits)

\* a *big.Float whose square overflows to Inf
BigHuge == Big(Fin(1, BigMaxExp \div 2), PrecBits)

\* slices of every element type and every length from 0 to MaxLen
ShapeSlices ==
    {Slice("float64", v) : v \in SeqsOf({One, Two}, 0, MaxLen)}
    \cup {Slice("int64", v) : v \in SeqsOf({One}, 0, MaxLen)}
    \cup {Slice("named", v) : v \in SeqsOf({One}, 0, MaxLen)}
    \cup {Slice("bigFloat", v) : v \in SeqsOf({BigOf(One), BigNil}, 0, MaxLen)}
    \cup {Slice("bigInt", v) : v \in SeqsOf({Two, BigNil}, 0, MaxLen)}

Init ==
    /\ x \in ShapeSlices
    /\ y \in ShapeSlices
    /\ kind \in Kinds
    /\ entry = "none"
    /\ f = InitFrame

(***************************************************************************)
(* The calls.  Correlate takes two slices of one native type, CorrelateBig *)
(* two slices of one big type, CorrelateMixed any two slices.              *)
(***************************************************************************)
CallCorrelate ==
    /\ f.pc = "idle"
    /\ x.t \in NativeTypes /\ y.t = x.t
    /\ entry' = "Correlate"
    /\ f' = Correlate(f, x, y, kind)
    /\ UNCHANGED <<x, y, kind>>

CallCorrelateBig ==
    /\ f.pc = "idle"
    /\ x.t \in BigTypes /\ y.t = x.t
    /\ entry' = "CorrelateBig"
    /\ f' = CorrelateBig(f, x, y, kind)
    /\ UNCHANGED <<x, y, kind>>

CallCorrelateMixed ==
    /\ f.pc = "idle"
    /\ entry' = "CorrelateMixed"
    /\ f' = CorrelateMixed(f, x, y, kind)
    /\ UNCHANGED <<x, y, kind>>

(***************************************************************************)
(* The steps of the running call.                                          *)
(***************************************************************************)
SinglePassLoop ==
    /\ f.pc = "sp_loop"
    /\ f' = pearsonsSinglePassLoop(f, x, y)
    /\ UNCHANGED <<x, y, kind, entry>>

SinglePassCheck ==
    /\ f.pc = "sp_check"
    /\ f' = pearsonsSinglePassCheck(f, x, y)
    /\ UNCHANGED <<x, y, kind, entry>>

BigConvert ==
    /\ f.pc = "big_convert"
    /\ f' = PearsonsBigConvert(f)
    /\ UNCHANGED <<x, y, kind, entry>>

BigLoop ==
    /\ f.pc = "big_loop"
    /\ f' = PearsonsBigLoop(f)
    /\ UNCHANGED <<x, y, kind, entry>>

BigNumerator ==
    /\ f.pc = "big_numerator"
    /\ f' = PearsonsBigNumerator(f)
    /\ UNCHANGED <<x, y, kind, entry>>

BigVarX ==
    /\ f.pc = "big_varX"
    /\ f' = PearsonsBigVarX(f)
    /\ UNCHANGED <<x, y, kind, entry>>

BigVarY ==
    /\ f.pc = "big_varY"
    /\ f' = PearsonsBigVarY(f)
    /\ UNCHANGED <<x, y, kind, entry>>

BigResult ==
    /\ f.pc = "big_result"
    /\ f' = PearsonsBigResult(f)
    /\ UNCHANGED <<x, y, kind, entry>>

BigSteps == BigConvert \/ BigLoop \/ BigNumerator \/ BigVarX \/ BigVarY \/ BigResult

Next ==
    \/ CallCorrelate
    \/ CallCorrelateBig
    \/ CallCorrelateMixed
    \/ SinglePassLoop
    \/ SinglePassCheck
    \/ BigConvert
    \/ BigLoop
    \/ BigNumerator
    \/ BigVarX
    \/ BigVarY
    \/ BigResult

Spec == Init /\ [][Next]_vars

(***************************************************************************)
(* What each public function gives back for its arguments.                 *)
(***************************************************************************)
CorrelateRet(a, b, t) == Run(Correlate(InitFrame, a, b, t), a, b).ret

CorrelateBigRet(a, b, t) == Run(CorrelateBig(InitFrame, a, b, t), a, b).ret

CorrelateMixedRet(a, b, t) == Run(CorrelateMixed(InitFrame, a, b, t), a, b).ret

(***************************************************************************)
(* Finite inputs of equal length n >= 2 to the machine-precision path.     *)
(***************************************************************************)
FiniteSlices(t, S) == {Slice(t, v) : v \in SeqsOf(S, 2, MaxLen)}

InitFinite ==
    /\ \/ /\ x \in FiniteSlices("float64", {MinusOne, ZeroElem, One, Two, Three})
          /\ y \in FiniteSlices("float64", {One, Two, Three})
       \/ /\ x \in FiniteSlices("int64", {One, Two, WideInt})
          /\ y \in FiniteSlices("int64", {One, Two, Three})
    /\ Len(x.v) = Len(y.v)
    /\ kind = Pearson
    /\ entry = "none"
    /\ f = InitFrame

NextNative ==
    \/ CallCorrelate
    \/ CallCorrelateMixed
    \/ SinglePassLoop
    \/ SinglePassCheck
    \/ BigConvert
    \/ BigLoop
    \/ BigNumerator
    \/ BigVarX
    \/ BigVarY
    \/ BigResult

SpecFinite == InitFinite /\ [][NextNative]_vars

\* the call has returned or panicked
IsDone == f.pc = "done"

Returned == IsDone /\ f.ret.tag = "return"

\* equal lengths, at least two points
WellShaped == Len(x.v) = Len(y.v) /\ Len(x.v) >= 2

AllFinite(s) == \A j \in 1..Len(s.v) : s.v[j].k = "fin"

Constant(s) == \A j \in 1..Len(s.v) : s.v[j] = s.v[1]

\* -1 <= r <= 1 for a float64 r
InUnitRange(r) == IsFin(r) /\ (r.m = 0 \/ Top(r) <= 0 \/ r = Fin(1, 0) \/ r = Fin(-1, 0))

(***************************************************************************)
(* Inputs that overflow the machine-precision pass: large finite values,   *)
(* +Inf and NaN in float64 slices, slices of a defined type, integers that *)
(* float64 rounds.                                                         *)
(***************************************************************************)
InitEscalate ==
    /\ \/ /\ x \in FiniteSlices("float64", {One, Large, PlusInf, NaNElem})
          /\ y \in FiniteSlices("float64", {One, Two, Large})
       \/ /\ x \in FiniteSlices("named", {One, Large})
          /\ y \in FiniteSlices("named", {One, Two})
       \/ /\ x \in FiniteSlices("int64", {One, WideInt, Large})
          /\ y \in FiniteSlices("int64", {One, Two})
    /\ Len(x.v) = Len(y.v)
    /\ kind = Pearson
    /\ entry = "none"
    /\ f = InitFrame

SpecEscalate == InitEscalate /\ [][NextNative]_vars

(***************************************************************************)
(* Arbitrary-precision inputs with infinite elements and with finite       *)
(* elements whose products overflow.                                       *)
(***************************************************************************)
InitBig ==
    /\ \/ /\ x \in FiniteSlices("bigFloat", {BigOf(One), BigOf(ZeroElem), BigOf(PlusInf),
                                             BigOf(MinusInf), BigHuge})
          /\ y \in FiniteSlices("bigFloat", {BigOf(One), BigOf(Two), BigOf(PlusInf)})
       \/ /\ x \in FiniteSlices("bigInt", {One, Three})
          /\ y \in FiniteSlices("bigInt", {One, Two})
    /\ Len(x.v) = Len(y.v)
    /\ kind = Pearson
    /\ entry = "none"
    /\ f = InitFrame

NextBig ==
    \/ CallCorrelateBig
    \/ BigConvert
    \/ BigLoop
    \/ BigNumerator
    \/ BigVarX
    \/ BigVarY
    \/ BigResult

SpecBig == InitBig /\ [][NextBig]_vars

(***************************************************************************)
(* Predicates on a finished call.                                          *)
(***************************************************************************)
\* the call gave back a coefficient: a value with a nil error
Succeeded(r) == r.tag = "return" /\ r.err = "nil"

\* the call gave back a non-nil error
Failed(r) == r.tag = "return" /\ r.err # "nil"

\* some machine sum of the finished pass is +Inf or -Inf (line 114)
SumsOverflowed ==
    \/ IsInf(f.sp.sumX) \/ IsInf(f.sp.sumY)
    \/ IsInf(f.sp.sumXY) \/ IsInf(f.sp.sumXX) \/ IsInf(f.sp.sumYY)

\* the accumulation loop of PearsonsBig ran over every element
BigLoopCompleted == Len(f.pb.xVals) >= 2 /\ f.pb.i = Len(f.pb.xVals)

MachineStages == {"sp_loop", "sp_check"}

(***************************************************************************)
(* C1.  Correlate, CorrelateBig and CorrelateMixed with kind Pearson: when *)
(* x is empty, y is empty, the lengths differ or both lengths are 1, the   *)
(* call returns a non-nil error and never a coefficient, whatever the      *)
(* elements are.                                                           *)
(***************************************************************************)
C1_ShapeErrorReturned ==
    (IsDone /\ kind = Pearson /\ ~WellShaped) => Failed(f.ret)

(***************************************************************************)
(* C2.  Correlate with kind Pearson on equal-length finite inputs of       *)
(* length n >= 2: when all x[i] are equal or all y[i] are equal, the call  *)
(* returns the zero-variance error and no coefficient.                     *)
(***************************************************************************)
C2_ConstantIsZeroVariance ==
    (/\ IsDone /\ entry = "Correlate" /\ kind = Pearson /\ WellShaped
     /\ AllFinite(x) /\ AllFinite(y)
     /\ (Constant(x) \/ Constant(y)))
    => f.ret = Return(Zero, ErrZeroVariance)

(***************************************************************************)
(* C3.  Correlate(x, y, Pearson) on finite sequences of equal length       *)
(* n >= 2, x not constant and y not constant, returns a nil error and a    *)
(* coefficient r with -1 <= r <= 1.                                        *)
(***************************************************************************)
C3_CoefficientInRange ==
    (/\ IsDone /\ entry = "Correlate" /\ kind = Pearson /\ WellShaped
     /\ AllFinite(x) /\ AllFinite(y)
     /\ ~Constant(x) /\ ~Constant(y))
    => (Succeeded(f.ret) /\ InUnitRange(f.ret.val))

(***************************************************************************)
(* C4.  What the escalation gives back when both conversions succeed, when *)
(* one returns an error and when one panics.                               *)
(***************************************************************************)
EscalationOutcome(a, b) ==
    LET bigX == mixedToBig(a)
        bigY == mixedToBig(b)
    IN  IF bigX.panic # "" THEN Panic(bigX.panic)
        ELSE IF bigX.err # "nil" THEN Return(Zero, ErrConvPrefix \o bigX.err)
        ELSE IF bigY.panic # "" THEN Panic(bigY.panic)
        ELSE IF bigY.err # "nil" THEN Return(Zero, ErrConvPrefix \o bigY.err)
        ELSE PearsonsBig(BigSlice(bigX.res), BigSlice(bigY.res))

C5_MachineAgreesWithBig ==
    (IsDone /\ entry = "Correlate" /\ kind = Pearson /\ WellShaped /\ ~SumsOverflowed)
    => (Succeeded(f.ret) <=> Succeeded(CorrelateMixedRet(x, y, Pearson)))

(***************************************************************************)
(* C6.  On a finite input that does not overflow, pearsonsSinglePass and   *)
(* pearsonsTwoPass have the same error status and, when both fail, the     *)
(* same error message.                                                     *)
(***************************************************************************)
C6_SinglePassAgreesWithTwoPass ==
    (/\ IsDone /\ entry = "Correlate" /\ kind = Pearson /\ ~SumsOverflowed
     /\ AllFinite(x) /\ AllFinite(y))
    => LET t == pearsonsTwoPass(x, y)
       IN  /\ Succeeded(f.ret) <=> Succeeded(t)
           /\ (Failed(f.ret) /\ Failed(t)) => f.ret.err = t.err

(***************************************************************************)
(* C7.  CorrelateBig with kind Pearson: when the accumulated sumXY and the *)
(* scaled product (sumX * sumY) / n are both infinite with the same sign,  *)
(* the call returns the error "correlation undefined: infinite values with *)
(* same sign detected" and no coefficient.                                 *)
(***************************************************************************)
C7_SameSignInfinityError ==
    (/\ IsDone /\ entry = "CorrelateBig" /\ BigLoopCompleted
     /\ SameSignInf(f.pb.sumXY, ScaledProduct(f, f.pb.sumX, f.pb.sumY)))
    => f.ret = Return(Zero, ErrSameSign)

\* +Inf in x and in y at one index gave the same-sign error
C7_Witness ==
    /\ IsDone /\ entry = "CorrelateBig"
    /\ \E j \in 1..Len(x.v) : x.v[j] = BigOf(PlusInf) /\ y.v[j] = BigOf(PlusInf)
    /\ IsInf(f.pb.sumXY) /\ IsInf(f.pb.temp)
    /\ f.ret = Return(Zero, ErrSameSign)

(***************************************************************************)
(* C8.  PearsonsBig never invokes big.Float.Sub, in any of its three final *)
(* subtractions, on two infinite operands of equal sign: the check before  *)
(* each subtraction has returned an error first, so no call panics with    *)
(* "subtraction of infinities with equal signs".                           *)
(***************************************************************************)
C8_NoSameSignSubtraction ==
    /\ \A j \in 1..Len(f.subs) : ~SameSignInf(f.subs[j][1], f.subs[j][2])
    /\ (IsDone /\ f.ret.tag = "panic")
       => f.ret.err # "subtraction of infinities with equal signs"

\* the numerator was subtracted, then the varX check returned its error
\* before the second subtraction
C8_Witness ==
    /\ IsDone /\ entry = "CorrelateBig"
    /\ Len(f.subs) = 1
    /\ SameSignInf(f.pb.sumXX, f.pb.temp)
    /\ f.ret = Return(Zero, ErrInfVarX)

(***************************************************************************)
(* C9.  PearsonsBig on equal-length sequences (n >= 2) of non-nil          *)
(* *big.Float values, +Inf and -Inf among them, returns a (value, error)   *)
(* pair and never panics.                                                  *)
(***************************************************************************)
C9_NoPanicOnInfinities ==
    (IsDone /\ entry = "CorrelateBig" /\ x.t = "bigFloat" /\ WellShaped)
    => f.ret.tag = "return"

(***************************************************************************)
(* C10.  Every finished call of Correlate, CorrelateBig or CorrelateMixed  *)
(* returns a nil error with a finite coefficient in [-1, 1], or a non-nil  *)
(* error; never a nil error with a NaN, infinite or out-of-range value.    *)
(***************************************************************************)
C10_FiniteCoefficientOrError ==
    IsDone => (/\ f.ret.tag = "return"
               /\ f.ret.err = "nil" => InUnitRange(f.ret.val))

(***************************************************************************)
(* C11.  Whenever a call returns a non-nil error, the value returned with  *)
(* it is exactly 0: no partially computed value comes back beside an       *)
(* error.                                                                  *)
(***************************************************************************)
C11_ErrorHasZeroValue ==
    (IsDone /\ Failed(f.ret)) => f.ret.val = Zero

\* the machine pass accumulated non-zero sums, then returned the
\* zero-variance error with value 0
C11_Witness ==
    /\ IsDone /\ entry = "Correlate" /\ kind = Pearson
    /\ f.sp.i = Len(x.v) /\ ~IsZero(f.sp.sumXY)
    /\ f.ret = Return(Zero, ErrZeroVariance)

(***************************************************************************)
(* The kinds without an algorithm, and what CorrelateMixed gives back when *)
(* a conversion of its arguments fails (x is converted before y).          *)
(***************************************************************************)
StubKinds == {Spearman, KendallTau, GoodmanKruskal}

Converts(s) == LET r == mixedToBig(s) IN r.panic = "" /\ r.err = "nil"

ConversionFailure(a, b) ==
    LET xVals == mixedToBig(a)
        yVals == mixedToBig(b)
    IN  IF xVals.panic # "" THEN Panic(xVals.panic)
        ELSE IF xVals.err # "nil" THEN Return(Zero, xVals.err)
        ELSE IF yVals.panic # "" THEN Panic(yVals.panic)
        ELSE Return(Zero, yVals.err)

(***************************************************************************)
(* C12 as stated.  Correlate with kind Pearson returns what Pearsons       *)
(* returns, and for each kind in {Spearman, KendallTau, GoodmanKruskal}    *)
(* and any two sequences Correlate, CorrelateBig and CorrelateMixed return *)
(* the "not implemented" error with no coefficient.                        *)
(***************************************************************************)
C12_StubKindsNotImplemented ==
    IsDone =>
        /\ (entry = "Correlate" /\ kind = Pearson) => f.ret = Pearsons(x, y)
        /\ kind \in StubKinds => f.ret = Return(Zero, ErrNotImplemented)

(***************************************************************************)
(* C12, amended.  Correlate with kind Pearson returns what Pearsons        *)
(* returns.  For each kind in {Spearman, KendallTau, GoodmanKruskal}, no   *)
(* call returns a coefficient; Correlate returns "not implemented" for any *)
(* two sequences; CorrelateBig and CorrelateMixed return "slices must have *)
(* the same length" when the lengths differ, "slices cannot be empty" when *)
(* both are empty, and otherwise "not implemented", except that            *)
(* CorrelateMixed gives back the error or the panic of a conversion that   *)
(* fails.                                                                  *)
(***************************************************************************)
C12_StubKindsAfterValidation ==
    IsDone =>
        /\ (entry = "Correlate" /\ kind = Pearson) => f.ret = Pearsons(x, y)
        /\ kind \in StubKinds =>
            /\ ~Succeeded(f.ret)
            /\ f.ret =
                IF entry = "Correlate" THEN Return(Zero, ErrNotImplemented)
                ELSE IF Len(x.v) # Len(y.v) THEN Return(Zero, ErrSlicesLength)
                ELSE IF Len(x.v) = 0 THEN Return(Zero, ErrSlicesEmpty)
                ELSE IF entry = "CorrelateMixed" /\ ~(Converts(x) /\ Converts(y))
                THEN ConversionFailure(x, y)
                ELSE Return(Zero, ErrNotImplemented)

\* CorrelateMixed converted two slices of different element types and its
\* Spearman stub answered
C12_Witness ==
    /\ IsDone /\ entry = "CorrelateMixed" /\ kind = Spearman
    /\ Len(x.v) >= 1 /\ x.t # y.t /\ f.touched
    /\ f.ret = Return(Zero, ErrNotImplemented)

(***************************************************************************)
(* C13.  For every kind and each of Correlate, CorrelateBig and            *)
(* CorrelateMixed, an empty sequence, a length mismatch or a length of 1   *)
(* is rejected with an input-shape error, before the algorithm or the stub *)
(* of the kind answers.                                                    *)
(***************************************************************************)
ShapeErrors == {ErrEmpty, ErrLength, ErrOnePoint, ErrSlicesLength, ErrSlicesEmpty}

C13_ValidationUniformAcrossKinds ==
    (IsDone /\ kind \in StubKinds \cup {Pearson} /\ ~WellShaped)
    => (Failed(f.ret) /\ f.ret.err \in ShapeErrors)

(***************************************************************************)
(* No engine stage has run: the locals of pearsonsSinglePass and of        *)
(* PearsonsBig are as the call found them.                                 *)
(***************************************************************************)
NoAlgorithmRan == f.sp = InitSP /\ f.pb = InitPB /\ f.subs = <<>> /\ ~f.esc

(***************************************************************************)
(* C14 as stated.  Correlate, CorrelateBig and CorrelateMixed called with  *)
(* a Type outside the four kinds on well-shaped inputs return 0 and the    *)
(* error "unsupported correlation type", and run no correlation algorithm. *)
(***************************************************************************)
C14_UnknownKindRejected ==
    (IsDone /\ kind = UnknownType /\ WellShaped)
    => (f.ret = Return(Zero, ErrUnsupportedKind) /\ NoAlgorithmRan)

(***************************************************************************)
(* C14, amended.  Correlate and CorrelateBig called with a Type outside    *)
(* the four kinds on well-shaped inputs return 0 and the error             *)
(* "unsupported correlation type", and run no correlation algorithm.       *)
(* CorrelateMixed does the same when both of its conversions succeed; it   *)
(* converts before it looks at the kind, so a conversion that fails gives  *)
(* back its own error or panic instead.  No algorithm runs either way.     *)
(***************************************************************************)
C14_UnknownKindAfterConversion ==
    (IsDone /\ kind = UnknownType /\ WellShaped)
    => /\ NoAlgorithmRan
       /\ f.ret = IF entry = "CorrelateMixed" /\ ~(Converts(x) /\ Converts(y))
                  THEN ConversionFailure(x, y)
                  ELSE Return(Zero, ErrUnsupportedKind)

\* Correlate was called with Type(999) on two well-shaped slices
C14_Witness ==
    /\ IsDone /\ entry = "Correlate" /\ kind = UnknownType /\ WellShaped
    /\ f.ret = Return(Zero, ErrUnsupportedKind)
    /\ f.sp = InitSP

(***************************************************************************)
(* C15.  In Correlate, CorrelateBig and CorrelateMixed with kind Pearson,  *)
(* a call whose sequences are empty, of different lengths or of length 1   *)
(* returns its shape error without having converted or used any element.   *)
(***************************************************************************)
C15_ValidationBeforeElements ==
    (IsDone /\ kind = Pearson /\ ~WellShaped)
    => (Failed(f.ret) /\ f.ret.err \in ShapeErrors /\ ~f.touched)

(***************************************************************************)
(* The conversion helpers called on their own, and PearsonsMixed.          *)
(* A running mixedToBig keeps its loop index in f.pb.i and its result in   *)
(* f.pb.xVals; it gives back (f.pb.xVals, f.ret.err), the result being     *)
(* empty when it returns nil.                                              *)
(***************************************************************************)
\* pearsons.go:460-462: n, result, the loop entry
mixedToBigEnter(fr, data) ==
    IF Len(data.v) = 0 THEN Done(fr, Return(Zero, "nil"))
    ELSE [fr EXCEPT !.pc = "mtb_loop"]

\* an iteration that reports a nil pointer as an error
mixedToBigLoopNilAsError(fr, data) ==
    LET i  == fr.pb.i
        el == data.v[i + 1]
        f2 == [fr EXCEPT !.touched = TRUE]
    IN  IF data.t = "named"
        THEN Done([f2 EXCEPT !.pb.xVals = <<>>], Return(Zero, ErrUnsupportedType(i)))
        ELSE IF el.k = "nil"
        THEN Done([f2 EXCEPT !.pb.xVals = <<>>], Return(Zero, "nil element"))
        ELSE LET c == MixedElem(data.t, el)
             IN  IF IsErrNaN(c) THEN Done(f2, Panic(ErrNaNMsg(c)))
                 ELSE [f2 EXCEPT !.pb.i = i + 1,
                                 !.pb.xVals = Append(fr.pb.xVals, c),
                                 !.ret = IF i + 1 = Len(data.v) THEN Return(Zero, "nil")
                                         ELSE fr.ret,
                                 !.pc = IF i + 1 = Len(data.v) THEN "done" ELSE "mtb_loop"]

\* pearsons.go:464-500: one iteration of the conversion loop
mixedToBigLoop(fr, data) ==
    LET i  == fr.pb.i
        el == data.v[i + 1]
        f2 == [fr EXCEPT !.touched = TRUE]
    IN  IF data.t = "named"
        THEN Done([f2 EXCEPT !.pb.xVals = <<>>], Return(Zero, ErrUnsupportedType(i)))
        ELSE IF el.k = "nil"
        THEN Done(f2, Panic(NilDeref))
        ELSE LET c == MixedElem(data.t, el)
             IN  IF IsErrNaN(c) THEN Done(f2, Panic(ErrNaNMsg(c)))
                 ELSE [f2 EXCEPT !.pb.i = i + 1,
                                 !.pb.xVals = Append(fr.pb.xVals, c),
                                 !.ret = IF i + 1 = Len(data.v) THEN Return(Zero, "nil")
                                         ELSE fr.ret,
                                 !.pc = IF i + 1 = Len(data.v) THEN "done" ELSE "mtb_loop"]

\* pearsons.go:508-517
bigNumericToBigFloat(fr, t, val) ==
    IF val.k = "nil" THEN Done([fr EXCEPT !.touched = TRUE], Panic(NilDeref))
    ELSE Done([fr EXCEPT !.touched = TRUE, !.pb.xVals = <<BigElem(t, val)>>],
              Return(Zero, "nil"))

\* pearsons.go:278-298
PearsonsMixed(fr, a, b) ==
    IF Len(a.v) # Len(b.v) THEN Done(fr, Return(Zero, ErrSlicesLength))
    ELSE IF Len(a.v) = 0 THEN Done(fr, Return(Zero, ErrSlicesEmpty))
    ELSE LET xVals == mixedToBig(a)
             yVals == mixedToBig(b)
             f2    == [fr EXCEPT !.touched = TRUE]
         IN  IF xVals.panic # "" THEN Done(f2, Panic(xVals.panic))
             ELSE IF xVals.err # "nil" THEN Done(f2, Return(Zero, xVals.err))
             ELSE IF yVals.panic # "" THEN Done(f2, Panic(yVals.panic))
             ELSE IF yVals.err # "nil" THEN Done(f2, Return(Zero, yVals.err))
             ELSE PearsonsBigEnter(f2, BigSlice(xVals.res), BigSlice(yVals.res))

CallMixedToBig ==
    /\ f.pc = "idle"
    /\ entry' = "mixedToBig"
    /\ f' = mixedToBigEnter(f, x)
    /\ UNCHANGED <<x, y, kind>>

MixedToBigLoop ==
    /\ f.pc = "mtb_loop"
    /\ f' = mixedToBigLoop(f, x)
    /\ UNCHANGED <<x, y, kind, entry>>

CallBigNumericToBigFloat ==
    /\ f.pc = "idle"
    /\ x.t \in BigTypes /\ Len(x.v) >= 1
    /\ entry' = "bigNumericToBigFloat"
    /\ f' = bigNumericToBigFloat(f, x.t, x.v[1])
    /\ UNCHANGED <<x, y, kind>>

CallPearsonsMixed ==
    /\ f.pc = "idle"
    /\ entry' = "PearsonsMixed"
    /\ f' = PearsonsMixed(f, x, y)
    /\ UNCHANGED <<x, y, kind>>

\* slices of every element type, with NaN, +Inf, nil and unrecognised elements
ConvertSlicesX ==
    {Slice("float64", v) : v \in SeqsOf({One, NaNElem, PlusInf}, 0, MaxLen)}
    \cup {Slice("int64", v) : v \in SeqsOf({One, WideInt}, 0, MaxLen)}
    \cup {Slice("named", v) : v \in SeqsOf({One, Large}, 0, MaxLen)}
    \cup {Slice("bigFloat", v) : v \in SeqsOf({BigOf(One), BigNil}, 0, MaxLen)}
    \cup {Slice("bigInt", v) : v \in SeqsOf({Two, BigNil}, 0, MaxLen)}

ConvertSlicesY ==
    {Slice("float64", v) : v \in SeqsOf({One, Two}, 0, MaxLen)}
    \cup {Slice("named", v) : v \in SeqsOf({One, Large}, 0, MaxLen)}
    \cup {Slice("bigFloat", v) : v \in SeqsOf({BigOf(Two), BigNil}, 0, MaxLen)}

InitConvert ==
    /\ x \in ConvertSlicesX
    /\ y \in ConvertSlicesY
    /\ kind = Pearson
    /\ entry = "none"
    /\ f = InitFrame

NextConvert ==
    \/ CallMixedToBig
    \/ MixedToBigLoop
    \/ CallBigNumericToBigFloat
    \/ CallPearsonsMixed
    \/ CallCorrelate
    \/ CallCorrelateMixed
    \/ SinglePassLoop
    \/ SinglePassCheck
    \/ BigConvert
    \/ BigLoop
    \/ BigNumerator
    \/ BigVarX
    \/ BigVarY
    \/ BigResult

SpecConvert == InitConvert /\ [][NextConvert]_vars

(***************************************************************************)
(* Predicates on the arguments and on a conversion's result.               *)
(***************************************************************************)
HasNil(s) == \E j \in 1..Len(s.v) : s.v[j].k = "nil"

\* the *big.Float c holds exactly the number of the element el
SameNumber(c, el) == c.k = el.k /\ c.m = el.m /\ c.e = el.e

(***************************************************************************)
(* C16.  mixedToBig, on any sequence of values of the supported types      *)
(* (integers, floats, non-nil *big.Int and *big.Float), returns a nil      *)
(* error and a sequence of the same length whose element i is exactly the  *)
(* input's element i; an empty input gives an empty result and no error.   *)
(***************************************************************************)
C16_ConversionExact ==
    (IsDone /\ entry = "mixedToBig" /\ x.t # "named" /\ ~HasNil(x))
    => /\ f.ret = Return(Zero, "nil")
       /\ Len(f.pb.xVals) = Len(x.v)
       /\ \A j \in 1..Len(x.v) : SameNumber(f.pb.xVals[j], x.v[j])

(***************************************************************************)
(* C17.  When the elements given to mixedToBig are of a type outside the   *)
(* recognised set, mixedToBig returns a nil result and an error naming the *)
(* lowest index of such an element (index 0: a slice has one element       *)
(* type); CorrelateMixed and PearsonsMixed return that error unchanged,    *)
(* and Pearsons reports it when its escalation meets it.                   *)
(***************************************************************************)
C17_UnsupportedTypeReported ==
    LET unsupported == "unsupported type at index 0"
    IN  /\ (IsDone /\ entry = "mixedToBig" /\ x.t = "named" /\ Len(x.v) >= 1)
           => (f.ret = Return(Zero, unsupported) /\ f.pb.xVals = <<>>)
        /\ (/\ IsDone /\ entry \in {"CorrelateMixed", "PearsonsMixed"}
            /\ Len(x.v) = Len(y.v) /\ Len(x.v) >= 1
            /\ (x.t = "named" \/ (Converts(x) /\ y.t = "named")))
           => f.ret = Return(Zero, unsupported)
        /\ (IsDone /\ entry = "Correlate" /\ x.t = "named" /\ SumsOverflowed)
           => f.ret = Return(Zero, ErrConvPrefix \o unsupported)

\* the machine pass over two slices of a defined type overflowed and the
\* escalation met the unsupported type
C17_Witness ==
    /\ IsDone /\ entry = "Correlate" /\ x.t = "named" /\ f.esc
    /\ f.sp.i = Len(x.v) /\ IsInf(f.sp.sumXX)
    /\ Failed(f.ret)

(***************************************************************************)
(* C18 as stated.  A nil *big.Float or *big.Int element given to           *)
(* mixedToBig or to bigNumericToBigFloat, or to CorrelateMixed on a        *)
(* well-shaped input, makes the call panic instead of returning an error,  *)
(* whatever was converted before it.                                       *)
(***************************************************************************)
C18_NilElementPanics ==
    /\ (IsDone /\ entry = "mixedToBig" /\ HasNil(x)) => f.ret.tag = "panic"
    /\ (IsDone /\ entry = "bigNumericToBigFloat" /\ x.v[1].k = "nil")
       => f.ret.tag = "panic"
    /\ (IsDone /\ entry = "CorrelateMixed" /\ WellShaped /\ (HasNil(x) \/ HasNil(y)))
       => f.ret.tag = "panic"

(***************************************************************************)
(* C18, amended.  A nil *big.Float or *big.Int element given to mixedToBig *)
(* or to bigNumericToBigFloat makes the call panic instead of returning an *)
(* error, whatever was converted before it.  So does one given to          *)
(* CorrelateMixed on a well-shaped input when the conversion reaches it: a *)
(* nil element of x always, a nil element of y unless x is of an           *)
(* unrecognised type, in which case the call returns the unsupported-type  *)
(* error of x and y is not converted.                                      *)
(***************************************************************************)
C18_NilElementReachedPanics ==
    /\ (IsDone /\ entry = "mixedToBig" /\ HasNil(x)) => f.ret.tag = "panic"
    /\ (IsDone /\ entry = "bigNumericToBigFloat" /\ x.v[1].k = "nil")
       => f.ret.tag = "panic"
    /\ (IsDone /\ entry = "CorrelateMixed" /\ WellShaped)
       => /\ (HasNil(x) \/ (HasNil(y) /\ x.t # "named")) => f.ret.tag = "panic"
          /\ (HasNil(y) /\ x.t = "named")
             => f.ret = Return(Zero, "unsupported type at index 0")

\* mixedToBig converted an element and then met a nil pointer
C18_Witness ==
    /\ IsDone /\ entry = "mixedToBig" /\ HasNil(x)
    /\ Len(f.pb.xVals) >= 1
    /\ f.ret = Panic(NilDeref)

(***************************************************************************)
(* C19.  Symmetry: for equal-length x and y, Correlate(x, y, Pearson) and  *)
(* Correlate(y, x, Pearson) end the same way (both return or both panic),  *)
(* have the same error status and, on success, the same coefficient (so    *)
(* within any tolerance).  The error messages may differ.                  *)
(***************************************************************************)
C19_Symmetry ==
    (IsDone /\ entry = "Correlate" /\ kind = Pearson /\ Len(x.v) = Len(y.v))
    => LET swapped == CorrelateRet(y, x, Pearson)
       IN  /\ swapped.tag = f.ret.tag
           /\ Failed(swapped) <=> Failed(f.ret)
           /\ Succeeded(f.ret) => swapped.val = f.ret.val

\* a successful call on two different slices whose coefficient is not zero
C19_Witness ==
    /\ IsDone /\ entry = "Correlate" /\ kind = Pearson
    /\ Len(x.v) = Len(y.v) /\ x # y
    /\ Succeeded(f.ret) /\ ~IsZero(f.ret.val)
    /\ CorrelateRet(y, x, Pearson) = f.ret

(***************************************************************************)
(* Affine images a*s + b of a float64 slice, for the a and b whose images  *)
(* of every element are float64 values (the image is the caller's input,   *)
(* so no rounding happens before the call).                                *)
(***************************************************************************)
Scales == {1, 2}

Shifts == {0, 1, 4}

\* the integer an integral element stands for
IntVal(el) == el.m * 2^el.e

\* the integer n is a float64
IsFloat64Int(n) ==
    LET r == Round(Float64Fmt, n, 0) IN IsFin(r) /\ r.e >= 0 /\ IntVal(r) = n

AffineExact(s, a, b) ==
    \A j \in 1..Len(s.v) :
        s.v[j].k = "fin" /\ s.v[j].e >= 0 /\ IsFloat64Int(a * IntVal(s.v[j]) + b)

Affine(s, a, b) ==
    Slice(s.t, [j \in 1..Len(s.v) |-> Elem(Fin(a * IntVal(s.v[j]) + b, 0))])

(***************************************************************************)
(* C20.  Affine invariance, its first half: when Correlate(x, y, Pearson)  *)
(* succeeds on non-degenerate finite float64 slices of equal length        *)
(* n >= 2, Correlate(a*x+b, c*y+d, Pearson) succeeds as well for a, c > 0  *)
(* and all b, d.                                                           *)
(***************************************************************************)
C20_AffineImageSucceeds ==
    (/\ IsDone /\ entry = "Correlate" /\ kind = Pearson /\ x.t = "float64"
     /\ WellShaped /\ AllFinite(x) /\ AllFinite(y)
     /\ ~Constant(x) /\ ~Constant(y)
     /\ Succeeded(f.ret))
    => \A a \in Scales, c \in Scales, b \in Shifts, d \in Shifts :
           (AffineExact(x, a, b) /\ AffineExact(y, c, d))
           => Succeeded(CorrelateRet(Affine(x, a, b), Affine(y, c, d), Pearson))

(***************************************************************************)
(* y is the exact image a*x + b of x, for a slope and a shift from small   *)
(* sets.                                                                   *)
(***************************************************************************)
Slopes == {-1, 1, 2}

LinearIn(s, u, a, b) == AffineExact(s, a, b) /\ u = Affine(s, a, b)

(***************************************************************************)
(* C21.  Perfect linear relation, its first half: for a non-constant       *)
(* finite float64 x of length n >= 2 and y = a*x + b with a # 0,           *)
(* Correlate(x, y, Pearson) succeeds with a coefficient of the sign of a.  *)
(***************************************************************************)
C21_LinearRelationSucceeds ==
    (/\ IsDone /\ entry = "Correlate" /\ kind = Pearson /\ x.t = "float64"
     /\ WellShaped /\ AllFinite(x) /\ ~Constant(x))
    => \A a \in Slopes, b \in Shifts :
           LinearIn(x, y, a, b)
           => Succeeded(f.ret) /\ IsFin(f.ret.val) /\ Sgn(f.ret.val.m) = Sgn(a)

(***************************************************************************)
(* The worked examples of the package: small integer inputs.  Every sum    *)
(* and product of the accumulation loop is then an integer far below 2^53, *)
(* which float64 holds exactly, so the loop is computed here on integers.  *)
(* The derivation (lines 127-143) rounds; its result is kept as an         *)
(* enclosure in units of 1/CoefScale, widened by one unit on each side,    *)
(* which covers the float64 rounding of its seven operations.              *)
(***************************************************************************)
CoefScale == 100000

IntElem(n) == Elem(Fin(n, 0))

IntSlice(v) == Slice("float64", [j \in 1..Len(v) |-> IntElem(v[j])])

\* a float64 known by an enclosure lo/CoefScale .. hi/CoefScale
Approx(lo, hi) == [k |-> "approx", lo |-> lo, hi |-> hi]

\* lines 102-111 on integer elements: one iteration of the accumulation loop
pearsonsSinglePassLoopInt(fr, a, b) ==
    LET s  == fr.sp
        fx == IntVal(a.v[s.i + 1])
        fy == IntVal(b.v[s.i + 1])
    IN  [fr EXCEPT !.touched = TRUE,
                   !.sp = [i     |-> s.i + 1,
                           sumX  |-> IntElem(IntVal(s.sumX) + fx),
                           sumY  |-> IntElem(IntVal(s.sumY) + fy),
                           sumXY |-> IntElem(IntVal(s.sumXY) + fx * fy),
                           sumXX |-> IntElem(IntVal(s.sumXX) + fx * fx),
                           sumYY |-> IntElem(IntVal(s.sumYY) + fy * fy)],
                   !.pc = IF s.i + 1 = Len(a.v) THEN "sp_check" ELSE "sp_loop"]

\* floor and ceiling of p / q for p >= 0, q > 0
FloorDiv(p, q) == p \div q

CeilDiv(p, q) == (p + q - 1) \div q

\* a derivation that divides by the variance of x alone
DeriveIntVarXOnly(fr, n) ==
    LET s    == fr.sp
        nn   == n * IntVal(s.sumXY) - IntVal(s.sumX) * IntVal(s.sumY)
        vx   == n * IntVal(s.sumXX) - IntVal(s.sumX) * IntVal(s.sumX)
        vy   == n * IntVal(s.sumYY) - IntVal(s.sumY) * IntVal(s.sumY)
        mag  == Abs(nn) * CoefScale
        lo   == FloorDiv(mag, vx) - 1
        hi   == CeilDiv(mag, vx) + 1
    IN  IF vx <= 0 \/ vy <= 0
        THEN Done(fr, Return(Zero, ErrZeroVariance))
        ELSE Done(fr, Return(IF nn >= 0 THEN Approx(lo, hi) ELSE Approx(-hi, -lo), "nil"))

(***************************************************************************)
(* lines 113-143 on integer sums.  The sums are finite, so line 114 does   *)
(* not fire.  With nn = n*numerator, vx = n*varX, vy = n*varY (integers),  *)
(* varX <= 0 is vx <= 0 (a positive vx is at least 1, far above the        *)
(* rounding of varX), and the coefficient is nn / sqrt(vx * vy).           *)
(***************************************************************************)
DeriveInt(fr, n) ==
    LET s    == fr.sp
        nn   == n * IntVal(s.sumXY) - IntVal(s.sumX) * IntVal(s.sumY)
        vx   == n * IntVal(s.sumXX) - IntVal(s.sumX) * IntVal(s.sumX)
        vy   == n * IntVal(s.sumYY) - IntVal(s.sumY) * IntVal(s.sumY)
        root == ISqrt(vx * vy)
        up   == IF root * root = vx * vy THEN root ELSE root + 1
        mag  == Abs(nn) * CoefScale
        lo   == FloorDiv(mag, up) - 1
        hi   == CeilDiv(mag, root) + 1
    IN  IF vx <= 0 \/ vy <= 0
        THEN Done(fr, Return(Zero, ErrZeroVariance))
        ELSE Done(fr, Return(IF nn >= 0 THEN Approx(lo, hi) ELSE Approx(-hi, -lo), "nil"))

\* the inputs of TestCorrelate that are integers
ExampleVectors ==
    { <<1, 2, 3, 4, 5>>, <<2, 4, 6, 8, 10>>, <<10, 8, 6, 4, 2>>, <<5, 5, 5, 5, 5>>,
      <<>>, <<1, 2, 3>>, <<1, 2>>, <<1>>, <<3, 3, 3, 3>>, <<1, 2, 3, 4>>,
      <<43, 21, 25, 42, 57, 59>>, <<99, 65, 79, 75, 87, 81>> }

ExampleSlices == {IntSlice(v) : v \in ExampleVectors}

InitExample ==
    /\ x \in ExampleSlices
    /\ y \in ExampleSlices
    /\ kind = Pearson
    /\ entry = "none"
    /\ f = InitFrame

IntLoop ==
    /\ f.pc = "sp_loop"
    /\ f' = pearsonsSinglePassLoopInt(f, x, y)
    /\ UNCHANGED <<x, y, kind, entry>>

IntCheck ==
    /\ f.pc = "sp_check"
    /\ f' = DeriveInt(f, Len(x.v))
    /\ UNCHANGED <<x, y, kind, entry>>

NextExample ==
    \/ CallCorrelate
    \/ IntLoop
    \/ IntCheck

SpecExample == InitExample /\ [][NextExample]_vars

RealWorldX == IntSlice(<<43, 21, 25, 42, 57, 59>>)

RealWorldY == IntSlice(<<99, 65, 79, 75, 87, 81>>)

(***************************************************************************)
(* C22.  Correlate(x=[43,21,25,42,57,59], y=[99,65,79,75,87,81], Pearson)  *)
(* accumulates the five sums 247, 486, 20485, 11409, 40022 over n = 6      *)
(* pairs and returns a nil error and a coefficient within 0.001 of 0.529.  *)
(***************************************************************************)
C22_RealWorldExample ==
    (IsDone /\ entry = "Correlate" /\ x = RealWorldX /\ y = RealWorldY)
    => /\ f.sp.i = 6
       /\ IntVal(f.sp.sumX) = 247 /\ IntVal(f.sp.sumY) = 486
       /\ IntVal(f.sp.sumXY) = 20485
       /\ IntVal(f.sp.sumXX) = 11409 /\ IntVal(f.sp.sumYY) = 40022
       /\ f.ret.tag = "return" /\ f.ret.err = "nil"
       /\ f.ret.val.k = "approx"
       /\ 52900 - 100 <= f.ret.val.lo /\ f.ret.val.hi <= 52900 + 100

\* the call on the example has returned
C22_Witness ==
    /\ IsDone /\ entry = "Correlate" /\ x = RealWorldX /\ y = RealWorldY
    /\ f.sp.i = 6 /\ f.ret.tag = "return" /\ f.ret.err = "nil"

\* the errors of a failed conversion during the escalation (lines 116-123)
EscalationErrors == {ErrConvPrefix \o ErrUnsupportedType(i) : i \in 0..MaxLen}

(***************************************************************************)
(* C23.  Whenever the machine pass of Correlate overflows, the call gives  *)
(* back what the arbitrary-precision path (CorrelateMixed) gives back for  *)
(* the same values, and no returned error tells that an escalation took    *)
(* place.                                                                  *)
(***************************************************************************)
C23_OverflowNotObservable ==
    (IsDone /\ entry = "Correlate" /\ kind = Pearson /\ SumsOverflowed)
    => /\ f.ret = CorrelateMixedRet(x, y, Pearson)
       /\ f.ret.err \notin EscalationErrors

\* mixedToBig(s) returns a non-nil error
ConversionFails(s) == LET r == mixedToBig(s) IN r.panic = "" /\ r.err # "nil"

\* CorrelateBig on what mixedToBig makes of a and b
CorrelateBigOfConverted(a, b, t) ==
    CorrelateBigRet(BigSlice(mixedToBig(a).res), BigSlice(mixedToBig(b).res), t)

(***************************************************************************)
(* C24 as stated.  CorrelateMixed(x, y, kind) returns exactly what         *)
(* CorrelateBig(mixedToBig(x), mixedToBig(y), kind) returns whenever both  *)
(* conversions succeed; when the conversion of x fails, its error is       *)
(* returned whatever y holds.                                              *)
(***************************************************************************)
C24_MixedIsBigOfConverted ==
    (IsDone /\ entry = "CorrelateMixed")
    => /\ (Converts(x) /\ Converts(y)) => f.ret = CorrelateBigOfConverted(x, y, kind)
       /\ ConversionFails(x) => f.ret = Return(Zero, mixedToBig(x).err)

(***************************************************************************)
(* C24, amended.  CorrelateMixed(x, y, kind) returns exactly what          *)
(* CorrelateBig(mixedToBig(x), mixedToBig(y), kind) returns whenever both  *)
(* conversions succeed; on inputs of equal length n >= 1, when the         *)
(* conversion of x fails, its error is returned whatever y holds.  On      *)
(* inputs of different lengths or of length 0 nothing is converted and the *)
(* shape error is returned.                                                *)
(***************************************************************************)
C24_MixedIsBigOfConvertedOnShape ==
    (IsDone /\ entry = "CorrelateMixed")
    => /\ (Converts(x) /\ Converts(y)) => f.ret = CorrelateBigOfConverted(x, y, kind)
       /\ (ConversionFails(x) /\ Len(x.v) = Len(y.v) /\ Len(x.v) >= 1)
          => f.ret = Return(Zero, mixedToBig(x).err)
       /\ Len(x.v) # Len(y.v) => (f.ret = Return(Zero, ErrSlicesLength) /\ ~f.touched)
       /\ (Len(x.v) = Len(y.v) /\ Len(x.v) = 0)
          => (f.ret = Return(Zero, ErrSlicesEmpty) /\ ~f.touched)

\* a call on slices of two different element types went through CorrelateBig
\* to a coefficient
C24_Witness ==
    /\ IsDone /\ entry = "CorrelateMixed" /\ kind = Pearson
    /\ x.t # y.t /\ Converts(x) /\ Converts(y)
    /\ Succeeded(f.ret)

(***************************************************************************)
(* Pointers.  The elements of the caller's slices and every big.Float the  *)
(* code allocates are cells of a heap; a cell is named by its index.  The  *)
(* caller's x occupies the first cells and y the next ones, unless the     *)
(* caller passed the same slice twice.  A frame of this model holds the    *)
(* heap, the cells of the arguments (xp, yp), the cells the call allocated *)
(* (xVals, yVals or result, and loc = sumX, sumY, sumXY, sumXX, sumYY,     *)
(* temp), what it returned to the caller (result, with the values snap the *)
(* cells held at the return), and whether the caller has since written to  *)
(* an argument (mutated).                                                  *)
(***************************************************************************)
Cells(from, n) == [j \in 1..n |-> from + j]

AliasFrame(a, b, shared) ==
    [pc |-> "idle",
     heap |-> IF shared THEN a.v ELSE a.v \o b.v,
     xp |-> Cells(0, Len(a.v)),
     yp |-> IF shared THEN Cells(0, Len(a.v)) ELSE Cells(Len(a.v), Len(b.v)),
     i |-> 0, xVals |-> <<>>, yVals |-> <<>>, loc |-> <<>>,
     result |-> <<>>, snap |-> <<>>, mutated |-> FALSE, ret |-> NoReturn]

Range(s) == {s[j] : j \in 1..Len(s)}

Deref(h, ps) == [j \in 1..Len(ps) |-> h[ps[j]]]

\* the cell new(big.Float) makes, at the end of the heap
NewCell(h) == Len(h) + 1

AliasDone(fr, r) == [fr EXCEPT !.pc = "done", !.ret = r]

\* PearsonsBig, lines 157-168
AliasPearsonsBigEnter(fr) ==
    IF Len(fr.xp) = 0 \/ Len(fr.yp) = 0 THEN AliasDone(fr, Return(Zero, ErrEmpty))
    ELSE IF Len(fr.xp) # Len(fr.yp) THEN AliasDone(fr, Return(Zero, ErrLength))
    ELSE IF Len(fr.xp) = 1 THEN AliasDone(fr, Return(Zero, ErrOnePoint))
    ELSE [fr EXCEPT !.pc = "a_convert"]

\* lines 174-188: one iteration of the conversion loop; after the last one,
\* lines 191-197: the five sums and temp
AliasPearsonsBigConvert(fr, t) ==
    LET h  == fr.heap
        vx == h[fr.xp[fr.i + 1]]
        vy == h[fr.yp[fr.i + 1]]
    IN  IF vx.k = "nil" \/ vy.k = "nil" THEN AliasDone(fr, Panic(NilDeref))
        ELSE LET h2   == h \o <<BigElem(t, vx), BigElem(t, vy)>>
                 last == fr.i + 1 = Len(fr.xp)
             IN  [fr EXCEPT
                    !.xVals = Append(fr.xVals, Len(h) + 1),
                    !.yVals = Append(fr.yVals, Len(h) + 2),
                    !.i = IF last THEN 0 ELSE fr.i + 1,
                    !.heap = IF last THEN h2 \o [j \in 1..6 |-> NewFloat] ELSE h2,
                    !.loc = IF last THEN Cells(Len(h2), 6) ELSE <<>>,
                    !.pc = IF last THEN "a_loop" ELSE "a_convert"]

\* lines 199-216: one iteration of the accumulation loop; each operation
\* writes the cell of its receiver
AliasPearsonsBigLoop(fr) ==
    LET h     == fr.heap
        fx    == h[fr.xVals[fr.i + 1]]
        fy    == h[fr.yVals[fr.i + 1]]
        sumX  == BigAdd(h[fr.loc[1]], h[fr.loc[1]], fx)
        sumY  == BigAdd(h[fr.loc[2]], h[fr.loc[2]], fy)
        t1    == BigMul(h[fr.loc[6]], fx, fy)
        sumXY == BigAdd(h[fr.loc[3]], h[fr.loc[3]], t1)
        t2    == BigMul(t1, fx, fx)
        sumXX == BigAdd(h[fr.loc[4]], h[fr.loc[4]], t2)
        t3    == BigMul(t2, fy, fy)
        sumYY == BigAdd(h[fr.loc[5]], h[fr.loc[5]], t3)
        bad   == FirstErrNaN(<<sumX, sumY, t1, sumXY, t2, sumXX, t3, sumYY>>)
        h2    == [h EXCEPT ![fr.loc[1]] = sumX, ![fr.loc[2]] = sumY,
                           ![fr.loc[3]] = sumXY, ![fr.loc[4]] = sumXX,
                           ![fr.loc[5]] = sumYY, ![fr.loc[6]] = t3]
    IN  IF bad # "none" THEN AliasDone(fr, Panic(bad))
        ELSE [fr EXCEPT !.heap = h2, !.i = fr.i + 1,
                        !.pc = IF fr.i + 1 = Len(fr.xVals) THEN "a_derive" ELSE "a_loop"]

\* lines 218-272: nf, numerator, varX, varY, zero, denominator and
\* correlation are new cells; of the earlier cells only temp is written
AliasPearsonsBigDerive(fr, a, b) ==
    LET h == fr.heap
        t == BigMul(h[fr.loc[6]], h[fr.loc[2]], h[fr.loc[2]])
    IN  AliasDone([fr EXCEPT !.heap = [h EXCEPT ![fr.loc[6]] = t]],
                  PearsonsBig(Slice(a.t, Deref(h, fr.xp)), Slice(b.t, Deref(h, fr.yp))))

\* mixedToBig, lines 461-462
AliasMixedToBigEnter(fr) ==
    IF Len(fr.xp) = 0
    THEN AliasDone(fr, Return(Zero, "nil"))
    ELSE [fr EXCEPT !.pc = "a_mtb"]

\* an iteration that stores the caller's *big.Float itself in the result
AliasMixedToBigLoopShares(fr, t) ==
    LET h == fr.heap
        p == fr.xp[fr.i + 1]
        v == h[p]
    IN  IF t = "named"
        THEN AliasDone([fr EXCEPT !.result = <<>>], Return(Zero, ErrUnsupportedType(fr.i)))
        ELSE IF v.k = "nil" THEN AliasDone([fr EXCEPT !.result = <<>>], Panic(NilDeref))
        ELSE LET c    == MixedElem(t, v)
                 res  == Append(fr.result, IF t = "bigFloat" THEN p ELSE NewCell(h))
                 h2   == IF t = "bigFloat" THEN h ELSE Append(h, c)
                 last == fr.i + 1 = Len(fr.xp)
             IN  IF IsErrNaN(c)
                 THEN AliasDone([fr EXCEPT !.result = <<>>], Panic(ErrNaNMsg(c)))
                 ELSE [fr EXCEPT !.heap = h2, !.i = fr.i + 1, !.result = res,
                                 !.snap = IF last THEN Deref(h2, res) ELSE <<>>,
                                 !.ret = IF last THEN Return(Zero, "nil") ELSE fr.ret,
                                 !.pc = IF last THEN "done" ELSE "a_mtb"]

\* lines 464-498: one iteration; every case stores a new(big.Float)
AliasMixedToBigLoop(fr, t) ==
    LET h == fr.heap
        v == h[fr.xp[fr.i + 1]]
    IN  IF t = "named"
        THEN AliasDone([fr EXCEPT !.result = <<>>], Return(Zero, ErrUnsupportedType(fr.i)))
        ELSE IF v.k = "nil" THEN AliasDone([fr EXCEPT !.result = <<>>], Panic(NilDeref))
        ELSE LET c    == MixedElem(t, v)
                 res  == Append(fr.result, NewCell(h))
                 h2   == Append(h, c)
                 last == fr.i + 1 = Len(fr.xp)
             IN  IF IsErrNaN(c)
                 THEN AliasDone([fr EXCEPT !.result = <<>>], Panic(ErrNaNMsg(c)))
                 ELSE [fr EXCEPT !.heap = h2, !.i = fr.i + 1, !.result = res,
                                 !.snap = IF last THEN Deref(h2, res) ELSE <<>>,
                                 !.ret = IF last THEN Return(Zero, "nil") ELSE fr.ret,
                                 !.pc = IF last THEN "done" ELSE "a_mtb"]

\* bigNumericToBigFloat, lines 508-517, on the first element
AliasBigNumericToBigFloat(fr, t) ==
    LET h == fr.heap
        v == h[fr.xp[1]]
    IN  IF v.k = "nil" THEN AliasDone(fr, Panic(NilDeref))
        ELSE LET h2 == Append(h, BigElem(t, v))
             IN  AliasDone([fr EXCEPT !.heap = h2, !.result = <<NewCell(h)>>,
                                      !.snap = <<h2[NewCell(h)]>>],
                           Return(Zero, "nil"))

AliasSlicesX ==
    {Slice("bigFloat", v) : v \in SeqsOf({BigOf(One), BigOf(Two), BigNil}, 0, MaxLen)}
    \cup {Slice("bigInt", v) : v \in SeqsOf({Two, Three}, 0, MaxLen)}
    \cup {Slice("float64", v) : v \in SeqsOf({One, NaNElem}, 0, MaxLen)}
    \cup {Slice("named", v) : v \in SeqsOf({One}, 0, MaxLen)}

AliasSlicesY ==
    {Slice("bigFloat", v) : v \in SeqsOf({BigOf(One), BigOf(Three)}, 0, MaxLen)}
    \cup {Slice("bigInt", v) : v \in SeqsOf({One, Two}, 0, MaxLen)}

InitAlias ==
    /\ x \in AliasSlicesX
    /\ y \in AliasSlicesY
    /\ kind = Pearson
    /\ entry = "none"
    /\ \E shared \in BOOLEAN :
          /\ shared => y = x
          /\ f = AliasFrame(x, y, shared)

AliasCallPearsonsBig ==
    /\ f.pc = "idle"
    /\ x.t \in BigTypes /\ y.t = x.t
    /\ entry' = "PearsonsBig"
    /\ f' = AliasPearsonsBigEnter(f)
    /\ UNCHANGED <<x, y, kind>>

\* CorrelateBig, lines 402-422, with kind Pearson: the caller's slices are
\* handed to PearsonsBig as they are
AliasCallCorrelateBig ==
    /\ f.pc = "idle"
    /\ x.t \in BigTypes /\ y.t = x.t
    /\ entry' = "CorrelateBig"
    /\ f' = IF Len(f.xp) # Len(f.yp) THEN AliasDone(f, Return(Zero, ErrSlicesLength))
            ELSE IF Len(f.xp) = 0 THEN AliasDone(f, Return(Zero, ErrSlicesEmpty))
            ELSE AliasPearsonsBigEnter(f)
    /\ UNCHANGED <<x, y, kind>>

AliasConvert ==
    /\ f.pc = "a_convert"
    /\ f' = AliasPearsonsBigConvert(f, x.t)
    /\ UNCHANGED <<x, y, kind, entry>>

AliasLoop ==
    /\ f.pc = "a_loop"
    /\ f' = AliasPearsonsBigLoop(f)
    /\ UNCHANGED <<x, y, kind, entry>>

AliasDerive ==
    /\ f.pc = "a_derive"
    /\ f' = AliasPearsonsBigDerive(f, x, y)
    /\ UNCHANGED <<x, y, kind, entry>>

AliasCallMixedToBig ==
    /\ f.pc = "idle"
    /\ entry' = "mixedToBig"
    /\ f' = AliasMixedToBigEnter(f)
    /\ UNCHANGED <<x, y, kind>>

AliasMixedLoop ==
    /\ f.pc = "a_mtb"
    /\ f' = AliasMixedToBigLoop(f, x.t)
    /\ UNCHANGED <<x, y, kind, entry>>

AliasCallBigNumericToBigFloat ==
    /\ f.pc = "idle"
    /\ x.t \in BigTypes /\ Len(x.v) >= 1
    /\ entry' = "bigNumericToBigFloat"
    /\ f' = AliasBigNumericToBigFloat(f, x.t)
    /\ UNCHANGED <<x, y, kind>>

\* after the call the caller overwrites one element of an argument
CallerMutates ==
    /\ f.pc = "done" /\ ~f.mutated
    /\ \E p \in Range(f.xp) \cup Range(f.yp), v \in {BigOf(Three), BigHuge} :
          /\ f.heap[p] # v
          /\ f' = [f EXCEPT !.heap[p] = v, !.mutated = TRUE]
    /\ UNCHANGED <<x, y, kind, entry>>

NextAlias ==
    \/ AliasCallPearsonsBig
    \/ AliasCallCorrelateBig
    \/ AliasConvert
    \/ AliasLoop
    \/ AliasDerive
    \/ AliasCallMixedToBig
    \/ AliasMixedLoop
    \/ AliasCallBigNumericToBigFloat
    \/ CallerMutates

SpecAlias == InitAlias /\ [][NextAlias]_vars

\* the cells the call has allocated and holds or has returned
OwnCells == Range(f.xVals) \cup Range(f.yVals) \cup Range(f.loc) \cup Range(f.result)

ArgCells == Range(f.xp) \cup Range(f.yp)

(***************************************************************************)
(* C25.  During and after every call of PearsonsBig, CorrelateBig,         *)
(* mixedToBig and bigNumericToBigFloat, successful or not, the caller's    *)
(* elements hold                                                           *)
(* what the caller put there; every cell the call holds or returns is a    *)
(* cell of its own, none of the caller's; and when the caller later        *)
(* overwrites an element, the values returned to it stay what they were.   *)
(***************************************************************************)
C25_InputsNotModified ==
    /\ ~f.mutated => (/\ Deref(f.heap, f.xp) = x.v
                      /\ Deref(f.heap, f.yp) = y.v)
    /\ OwnCells \cap ArgCells = {}
    /\ (f.pc = "done" /\ f.ret.tag = "return" /\ f.ret.err = "nil"
        /\ entry \in {"mixedToBig", "bigNumericToBigFloat"})
       => Deref(f.heap, f.result) = f.snap

\* the caller overwrote an element that mixedToBig had converted
C25_Witness ==
    /\ f.pc = "done" /\ entry = "mixedToBig" /\ x.t = "bigFloat"
    /\ f.mutated /\ Len(f.result) >= 2
    /\ \E j \in 1..Len(f.xp) : f.heap[f.xp[j]] # x.v[j]

(***************************************************************************)
(* The sums over the first k pairs, accumulated from index 0 upwards in    *)
(* the arithmetic of the accumulator: float64 for pearsonsSinglePass,      *)
(* big.Float for PearsonsBig (each sum takes the precision of its first    *)
(* operand; temp, and so every product, that of the first product).        *)
(***************************************************************************)
RECURSIVE DotTo(_, _, _)
DotTo(u, v, k) ==
    IF k = 0 THEN Zero
    ELSE FAdd(DotTo(u, v, k - 1), FMul(Float64Of(u[k]), Float64Of(v[k])))

RECURSIVE SumTo(_, _)
SumTo(v, k) == IF k = 0 THEN Zero ELSE FAdd(SumTo(v, k - 1), Float64Of(v[k]))

RECURSIVE BigSumTo(_, _)
BigSumTo(v, k) ==
    IF k = 0 THEN NewFloat
    ELSE LET z == BigSumTo(v, k - 1) IN BigAdd(z, z, v[k])

RECURSIVE BigDotTo(_, _, _, _)
BigDotTo(u, v, k, p) ==
    IF k = 0 THEN NewFloat
    ELSE LET z == BigDotTo(u, v, k - 1, p)
         IN  BigAdd(z, z, BigMul(Big(Zero, p), u[k], v[k]))

\* the precision temp takes at the first product, line 208
TempPrec(u, v) == IF Len(u) = 0 THEN 0 ELSE Max(u[1].prec, v[1].prec)

(***************************************************************************)
(* C26.  In both accumulators, after the first k pairs (0 <= k <= n) the   *)
(* five sums are the sums over the pairs of index below k, taken in        *)
(* ascending order with x[i] paired with y[i]; the loop ends after exactly *)
(* n iterations; the overflow check, the escalation and the derivation run *)
(* only after it has ended.                                                *)
(***************************************************************************)
C26_AccumulatorSums ==
    /\ LET s == f.sp
           k == s.i
       IN  /\ k \in 0..Len(x.v)
           /\ s.sumX = SumTo(x.v, k) /\ s.sumY = SumTo(y.v, k)
           /\ s.sumXY = DotTo(x.v, y.v, k)
           /\ s.sumXX = DotTo(x.v, x.v, k) /\ s.sumYY = DotTo(y.v, y.v, k)
           /\ f.pc = "sp_loop" => k < Len(x.v)
           /\ (f.pc = "sp_check" \/ f.esc) => (k = Len(x.v) /\ k = Len(y.v))
           /\ (IsDone /\ entry = "Correlate" /\ kind = Pearson /\ f.touched)
              => k = Len(x.v)
    /\ LET b == f.pb
           k == b.i
           p == TempPrec(b.xVals, b.yVals)
       IN  /\ k \in 0..Len(b.xVals) /\ Len(b.xVals) = Len(b.yVals)
           /\ b.sumX = BigSumTo(b.xVals, k) /\ b.sumY = BigSumTo(b.yVals, k)
           /\ b.sumXY = BigDotTo(b.xVals, b.yVals, k, p)
           /\ b.sumXX = BigDotTo(b.xVals, b.xVals, k, p)
           /\ b.sumYY = BigDotTo(b.yVals, b.yVals, k, p)
           /\ f.pc = "big_loop" => k < Len(b.xVals)
           /\ f.pc \in {"big_numerator", "big_varX", "big_varY", "big_result"}
              => k = Len(b.xVals)
           /\ (IsDone /\ Returned /\ Len(b.xVals) > 0) => k = Len(b.xVals)

\* both accumulators ran to the end on three pairs
C26_Witness ==
    /\ IsDone /\ entry = "Correlate" /\ f.esc
    /\ f.sp.i = 3 /\ f.pb.i = 3
    /\ Succeeded(f.ret)

\* +Inf among the elements of x and no -Inf; y finite and positive
PlusInfInXOnly ==
    /\ \E j \in 1..Len(x.v) : IsInf(x.v[j]) /\ x.v[j].m > 0
    /\ \A j \in 1..Len(x.v) : IsInf(x.v[j]) => x.v[j].m > 0
    /\ \A j \in 1..Len(y.v) : IsFin(y.v[j]) /\ y.v[j].m > 0

(***************************************************************************)
(* C27.  PearsonsBig makes its three same-sign-infinity checks in the      *)
(* order numerator, varX, varY, each before its subtraction, and returns   *)
(* the error of the first that fires; the zero-variance check comes after  *)
(* the three subtractions.  So x with +Inf (and no -Inf) against a finite  *)
(* positive y, where the variance of x is infinite as well, gives          *)
(* "infinite values with same sign detected" and not "infinite variance    *)
(* detected in X".                                                         *)
(***************************************************************************)
C27_SameSignCheckOrder ==
    /\ (IsDone /\ entry = "CorrelateBig" /\ Failed(f.ret))
       => /\ f.ret.err = ErrSameSign => (Len(f.subs) = 0 /\ BigLoopCompleted)
          /\ f.ret.err = ErrInfVarX
             => (Len(f.subs) = 1 /\ ~SameSignInf(f.subs[1][1], f.subs[1][2]))
          /\ f.ret.err = ErrInfVarY => Len(f.subs) = 2
          /\ f.ret.err = ErrZeroVariance => Len(f.subs) = 3
    /\ (IsDone /\ entry = "CorrelateBig" /\ x.t = "bigFloat" /\ WellShaped
        /\ PlusInfInXOnly)
       => /\ f.ret = Return(Zero, ErrSameSign)
          /\ SameSignInf(f.pb.sumXX, ScaledProduct(f, f.pb.sumX, f.pb.sumX))

\* x = [+Inf, 1, ...] against a finite positive y: the numerator check fired
\* although the variance of x is infinite too
C27_Witness ==
    /\ IsDone /\ entry = "CorrelateBig" /\ x.t = "bigFloat" /\ WellShaped
    /\ PlusInfInXOnly /\ x.v[1] = BigOf(PlusInf) /\ x.v[2] = BigOf(One)
    /\ f.ret = Return(Zero, ErrSameSign)
    /\ IsInf(f.pb.sumXX)

\* every machine sum of the finished pass is finite
SumsFinite ==
    /\ IsFin(f.sp.sumX) /\ IsFin(f.sp.sumY)
    /\ IsFin(f.sp.sumXY) /\ IsFin(f.sp.sumXX) /\ IsFin(f.sp.sumYY)

\* a product of lines 130-141 overflows although its operands are finite
DerivedOverflow ==
    LET s    == f.sp
        nf   == LenToFloat64(Len(x.v))
        varX == FSub(s.sumXX, FDiv(FMul(s.sumX, s.sumX), nf))
        varY == FSub(s.sumYY, FDiv(FMul(s.sumY, s.sumY), nf))
    IN  \/ IsInf(FMul(s.sumX, s.sumY))
        \/ IsInf(FMul(s.sumX, s.sumX))
        \/ IsInf(FMul(s.sumY, s.sumY))
        \/ (IsFin(varX) /\ IsFin(varY) /\ IsInf(FMul(varX, varY)))

(***************************************************************************)
(* C28.  After the complete machine pass Correlate escalates exactly when  *)
(* one of the five sums is +Inf or -Inf; it derives a coefficient or the   *)
(* zero-variance error itself only from five finite sums; and when the     *)
(* sums are finite but a product derived from them overflows, a            *)
(* non-degenerate finite input still gets a coefficient with a nil error,  *)
(* which is not 0 when the two sequences are equal.                        *)
(***************************************************************************)
C28_EscalatesOnlyOnInfiniteSums ==
    (IsDone /\ entry = "Correlate" /\ kind = Pearson /\ WellShaped
     /\ f.sp.i = Len(x.v))
    => /\ f.esc <=> SumsOverflowed
       /\ (~f.esc /\ AllFinite(x) /\ AllFinite(y)) => SumsFinite
       /\ (/\ AllFinite(x) /\ AllFinite(y) /\ ~Constant(x) /\ ~Constant(y)
           /\ SumsFinite /\ DerivedOverflow)
          => (Succeeded(f.ret) /\ (x = y => ~IsZero(f.ret.val)))

PearsonsMixedRet(a, b) == Run(PearsonsMixed(InitFrame, a, b), a, b).ret

\* the error of the checks "either empty, then lengths differ, then n = 1"
EmptyFirst(a, b) ==
    IF Len(a.v) = 0 \/ Len(b.v) = 0 THEN Return(Zero, ErrEmpty)
    ELSE IF Len(a.v) # Len(b.v) THEN Return(Zero, ErrLength)
    ELSE Return(Zero, ErrOnePoint)

\* the error of the checks "lengths differ, then x empty", n = 1 being left
\* to PearsonsBig
LengthFirst(a, b) ==
    IF Len(a.v) # Len(b.v) THEN Return(Zero, ErrSlicesLength)
    ELSE IF Len(a.v) = 0 THEN Return(Zero, ErrSlicesEmpty)
    ELSE Return(Zero, ErrOnePoint)

(***************************************************************************)
(* C29.  On an input that is not well shaped the error is fixed by the     *)
(* order of the checks.  Pearsons, PearsonsBig and Correlate (kind         *)
(* Pearson) test for an empty slice, then for different lengths, then for  *)
(* n = 1.  CorrelateBig, CorrelateMixed and PearsonsMixed test for         *)
(* different lengths, then for an empty x, whatever the kind, and leave    *)
(* n = 1 to PearsonsBig, which they reach with kind Pearson once the       *)
(* elements are converted.  So an empty x with a non-empty y is "cannot be *)
(* empty" for Correlate and "must have the same length" for CorrelateBig   *)
(* and CorrelateMixed.                                                     *)
(***************************************************************************)
C29_ShapeCheckOrder ==
    /\ (IsDone /\ entry = "Correlate" /\ kind = Pearson /\ ~WellShaped)
       => (f.ret = EmptyFirst(x, y) /\ Pearsons(x, y) = EmptyFirst(x, y))
    /\ (~WellShaped /\ x.t \in BigTypes /\ y.t = x.t)
       => PearsonsBig(x, y) = EmptyFirst(x, y)
    /\ (IsDone /\ entry = "CorrelateBig" /\ ~WellShaped
        /\ (kind = Pearson \/ Len(x.v) # Len(y.v) \/ Len(x.v) = 0))
       => f.ret = LengthFirst(x, y)
    /\ (IsDone /\ entry = "CorrelateMixed" /\ ~WellShaped
        /\ (Len(x.v) # Len(y.v) \/ Len(x.v) = 0
            \/ (kind = Pearson /\ Converts(x) /\ Converts(y))))
       => f.ret = LengthFirst(x, y)
    /\ (~WellShaped /\ y.t = x.t
        /\ (Len(x.v) # Len(y.v) \/ Len(x.v) = 0 \/ (Converts(x) /\ Converts(y))))
       => PearsonsMixedRet(x, y) = LengthFirst(x, y)
    /\ (IsDone /\ Len(x.v) = 0 /\ Len(y.v) > 0)
       => /\ (entry = "Correlate" /\ kind = Pearson) => f.ret.err = ErrEmpty
          /\ entry \in {"CorrelateBig", "CorrelateMixed"} => f.ret.err = ErrSlicesLength

\* CorrelateBig reported an empty x against a non-empty y as a length mismatch
C29_Witness ==
    /\ IsDone /\ entry = "CorrelateBig" /\ kind = Pearson
    /\ Len(x.v) = 0 /\ Len(y.v) > 0
    /\ f.ret = Return(Zero, ErrSlicesLength)

(***************************************************************************)
(* Two calls of Correlate in flight at once, as two goroutines make them.  *)
(* The package declares no variable: every local of a call (the five sums, *)
(* the converted sequences) lives in the call's own frame, so the state is *)
(* the two frames a and b and nothing else.  Call a is                     *)
(* Correlate(x, y, kind); call b has the same arguments, or, as another    *)
(* call, the arguments swapped.                                            *)
(***************************************************************************)
Callers == {"a", "b"}

Other(who) == IF who = "a" THEN "b" ELSE "a"

TwoFrames(swapped) == [a |-> InitFrame, b |-> InitFrame, swapped |-> swapped]

\* the arguments of a call: <<x, y>> for a, and for b unless it swaps them
ArgsOf(st, who, a, b) == IF who = "b" /\ st.swapped THEN <<b, a>> ELSE <<a, b>>

\* a step that takes sumX from the frame of the other call, as it would
\* were the sum a variable of the package
StepOfSharedSum(st, who, a, b) ==
    LET args == ArgsOf(st, who, a, b)
        mine == st[who]
        seen == IF mine.pc = "sp_loop" /\ st[Other(who)].pc = "sp_loop"
                THEN [mine EXCEPT !.sp.sumX = st[Other(who)].sp.sumX]
                ELSE mine
    IN  [st EXCEPT ![who] = Step(seen, args[1], args[2])]

\* one step of one call: it reads and writes its own frame only
StepOf(st, who, a, b) ==
    LET args == ArgsOf(st, who, a, b)
    IN  [st EXCEPT ![who] = Step(st[who], args[1], args[2])]

\* the longest slices of the two calls
TwoCallLen == 2

TwoCallSlicesX == {Slice("float64", v) : v \in SeqsOf({One, Large, PlusInf}, 2, TwoCallLen)}

TwoCallSlicesY == {Slice("float64", v) : v \in SeqsOf({One, Two}, 2, TwoCallLen)}

InitTwoCalls ==
    /\ x \in TwoCallSlicesX
    /\ y \in TwoCallSlicesY
    /\ Len(x.v) = Len(y.v)
    /\ kind = Pearson
    /\ entry = "none"
    /\ \E swapped \in BOOLEAN : f = TwoFrames(swapped)

CallOf(who) ==
    /\ f[who].pc = "idle"
    /\ entry' = "Correlate"
    /\ LET args == ArgsOf(f, who, x, y)
       IN  f' = [f EXCEPT ![who] = Correlate(f[who], args[1], args[2], kind)]
    /\ UNCHANGED <<x, y, kind>>

StepCall(who) ==
    /\ f[who].pc \notin {"idle", "done"}
    /\ f' = StepOf(f, who, x, y)
    /\ UNCHANGED <<x, y, kind, entry>>

CallA == CallOf("a")

CallB == CallOf("b")

StepA == StepCall("a")

StepB == StepCall("b")

NextTwoCalls ==
    \/ CallA
    \/ CallB
    \/ StepA
    \/ StepB

SpecTwoCalls == InitTwoCalls /\ [][NextTwoCalls]_vars

\* fr is a frame of the call that starts at start and runs alone
RECURSIVE OnPath(_, _, _, _)
OnPath(start, fr, a, b) ==
    IF start = fr THEN TRUE
    ELSE IF start.pc = "done" THEN FALSE
    ELSE OnPath(Step(start, a, b), fr, a, b)

AloneFrom(who) ==
    LET args == ArgsOf(f, who, x, y)
    IN  Correlate(InitFrame, args[1], args[2], kind)

====
